---- MODULE Spec2Model ----
(***************************************************************************)
(* Backup orchestration engine of backup-restore: the file based operation *)
(* lock of the SQL and Neo4j backup services, the schedule executor        *)
(* (run-due, run-now, run-enabled-now) with its retention sweep, the       *)
(* manual backup-now and restore-now pipelines, the run / audit            *)
(* bookkeeping and the runner that posts run-due on every tick.  The       *)
(* schedule timing helpers, the retention planner, the validation of the   *)
(* backup_id of download and delete requests, the path of an upload, the   *)
(* backup-now request and the restore middleware are functions of their    *)
(* arguments and of the state they find, with specifications of their own. *)
(*                                                                         *)
(* Time is in seconds (UTC, second 0 = midnight of day 0).  Every call     *)
(* that the code hands to the thread pool or awaits is one step of the     *)
(* calling request, so requests interleave exactly where the code can be   *)
(* suspended.                                                               *)
(***************************************************************************)
EXTENDS Integers, Sequences, FiniteSets, TLC

\* ------------------------------------------------------------------ bounds
\* clock advances, pipeline executions (one per schedule a request runs, one
\* per backup-now / restore-now) and schedules created
MaxTicks == 2
MaxOps == 2
MaxSchedules == 1
\* artifacts in a listing handed to the retention planner
MaxBackups == 3
\* characters in a backup_id of a download or delete request
MaxIdLen == 7

\* ------------------------------------------------------- program constants
LOCK_TIMEOUT == 7200
DAY_SECONDS == 86400
HOUR_SECONDS == 3600

Procs == {1, 2}
Families == {"sql", "neo4j"}
Targets == {"t_sql", "t_neo"}
SchedIds == 1..MaxSchedules

\* the instants at which something happens: just before and exactly at every
\* multiple of the lock timeout after the start
Instant(k) == IF k % 2 = 1 THEN ((k + 1) \div 2) * LOCK_TIMEOUT - 1
              ELSE (k \div 2) * LOCK_TIMEOUT

NULL == -1
NoTime == <<>>
DEFAULT_DAILY_TIME == <<3, 30>>
RAISED == -2

\* db_type of a target decides which backup service (and lock file) is used
FamilyOf(t) == IF t = "t_neo" THEN "neo4j" ELSE "sql"

\* ------------------------------------------------------------- schedule timing
\* parse_time_hhmm after the split and int(): the range check
ParseOk(hm) == /\ Len(hm) = 2
               /\ ~(hm[1] < 0 \/ hm[1] > 23 \/ hm[2] < 0 \/ hm[2] > 59)

\* get_daily_time_from_retention is this with default DEFAULT_DAILY_TIME
get_run_at_time_from_retention(retention, default) ==
    IF retention.run_at_time = NoTime THEN default ELSE retention.run_at_time

\* the same with the comparison candidate < reference
compute_next_anchored_run_at_late(reference, interval_seconds, run_at_time) ==
    IF interval_seconds <= 0 \/ ~ParseOk(run_at_time) THEN RAISED
    ELSE LET candidate == (reference \div DAY_SECONDS) * DAY_SECONDS
                          + run_at_time[1] * HOUR_SECONDS + run_at_time[2] * 60
         IN IF candidate < reference
            THEN LET steps == ((reference - candidate) \div interval_seconds) + 1
                 IN candidate + steps * interval_seconds
            ELSE candidate

compute_next_anchored_run_at(reference, interval_seconds, run_at_time) ==
    IF interval_seconds <= 0 \/ ~ParseOk(run_at_time) THEN RAISED
    ELSE LET candidate == (reference \div DAY_SECONDS) * DAY_SECONDS
                          + run_at_time[1] * HOUR_SECONDS + run_at_time[2] * 60
         IN IF candidate <= reference
            THEN LET steps == ((reference - candidate) \div interval_seconds) + 1
                 IN candidate + steps * interval_seconds
            ELSE candidate

compute_next_run_at(reference, interval_seconds, retention) ==
    IF interval_seconds <= 0 THEN RAISED
    ELSE IF interval_seconds = DAY_SECONDS
    THEN compute_next_anchored_run_at(reference, interval_seconds,
                                      get_run_at_time_from_retention(retention, DEFAULT_DAILY_TIME))
    ELSE IF get_run_at_time_from_retention(retention, NoTime) # NoTime /\ interval_seconds >= HOUR_SECONDS
    THEN compute_next_anchored_run_at(reference, interval_seconds,
                                      get_run_at_time_from_retention(retention, NoTime))
    ELSE reference + interval_seconds

\* compute_initial_next_run_at: NULL stands for None
compute_initial_next_run_at(t, enabled, interval_seconds, retention) ==
    IF ~enabled THEN NULL
    ELSE IF interval_seconds = DAY_SECONDS
    THEN compute_next_run_at(t, interval_seconds, retention)
    ELSE IF get_run_at_time_from_retention(retention, NoTime) # NoTime /\ interval_seconds >= HOUR_SECONDS
    THEN compute_next_run_at(t, interval_seconds, retention)
    ELSE t

\* RetentionConfig.keep_last when the payload does not set it
DEFAULT_KEEP_LAST == 10

\* the schedule payloads POST /automation/schedules is exercised with; the
\* retention mode is last_n
ScheduleConfigs ==
    { [target |-> "t_sql", interval_seconds |-> DAY_SECONDS, run_at_time |-> NoTime,
       keep_last |-> 1, ndest |-> 1],
      [target |-> "t_neo", interval_seconds |-> HOUR_SECONDS, run_at_time |-> <<2, 0>>,
       keep_last |-> DEFAULT_KEEP_LAST, ndest |-> 1],
      [target |-> "t_sql", interval_seconds |-> 60, run_at_time |-> NoTime,
       keep_last |-> 0, ndest |-> 2],
      [target |-> "t_sql", interval_seconds |-> 0, run_at_time |-> NoTime,
       keep_last |-> 1, ndest |-> 1] }

\* ------------------------------------------------------------------ storage
\* destination 1 is the local backup directory, destination 2 a remote one; a
\* schedule or backup-now request with n destinations uses 1..n
Dests == {1, 2}

\* a stored artifact: its name "<subfolder>/<prefix><filename>", in parts.  The
\* subfolder is the sanitized target name (the names in Targets are left
\* unchanged by _sanitize_name), the prefix is "sched-<schedule id>-" for the
\* executor and "manual-<subfolder>-" for backup-now (owner 0), and the Run
\* stands for the timestamp in the filename.  A destination is the sequence
\* of its artifacts from oldest to newest created_at.
Artifact(folder, kind, owner, run) ==
    [folder |-> folder, kind |-> kind, owner |-> owner, run |-> run]

\* what the destinations hold at the start: an earlier manual backup of the
\* SQL target and an artifact of a schedule that is not in the table
InitialArtifacts == <<Artifact("t_sql", "manual", 0, 0), Artifact("t_sql", "sched", 0, 0)>>

\* executor: retention_prefix = f"{subfolder}/{prefix}"
retention_prefix(target, schedule_id) ==
    [folder |-> target, kind |-> "sched", owner |-> schedule_id]

\* str.startswith on the name
StartsWith(a, prefix) ==
    /\ a.folder = prefix.folder
    /\ a.kind = prefix.kind
    /\ a.owner = prefix.owner

\* StorageProvider.list_backups(prefix=...)
list_backups_unfiltered(files, prefix) == files

list_backups(files, prefix) == SelectSeq(files, LAMBDA a : StartsWith(a, prefix))

\* plan_retention in mode last_n keeping the oldest keep_last artifacts
plan_retention_oldest(existing, retention) ==
    LET keep_last == IF retention.keep_last > 0 THEN retention.keep_last ELSE 0
        n == Len(existing)
    IN IF keep_last >= n THEN <<>> ELSE SubSeq(existing, keep_last + 1, n)

\* plan_retention in mode last_n (min_backups and max_backups unset): the
\* delete list
plan_retention(existing, retention) ==
    LET keep_last == IF retention.keep_last > 0 THEN retention.keep_last ELSE 0
        n == Len(existing)
    IN IF keep_last >= n THEN <<>> ELSE SubSeq(existing, 1, n - keep_last)

\* StorageProvider.delete_backups
delete_backups(files, delete) ==
    SelectSeq(files, LAMBDA a : \A i \in DOMAIN delete : delete[i] # a)

\* -------------------------------------------------------- retention planner
\* the planner as a function of the listing and the RetentionConfig.  Instants
\* are hours since Monday 2025-12-29 00:00 UTC; None is NULL for the optional
\* numbers (which are never negative here) and "" for the profile.
BackupObject(id, created_at, size) == [id |-> id, created_at |-> created_at, size |-> size]

\* datetime.date(), .year, .month and .isocalendar() for the instants between
\* 2025-12-29 and 2026-01-31: the day number, and the calendar fields of a day
DateOf(t) == t \div 24
YearOf(d) == IF d < 3 THEN 2025 ELSE 2026
MonthOf(d) == IF d < 3 THEN 12 ELSE 1
IsoYearOf(d) == 2026
IsoWeekOf(d) == d \div 7 + 1

RetentionConfig ==
    [mode |-> "last_n", keep_last |-> DEFAULT_KEEP_LAST, profile |-> "",
     daily |-> NULL, weekly |-> NULL, monthly |-> NULL, yearly |-> NULL,
     min_backups |-> NULL, max_backups |-> NULL,
     max_age_days |-> NULL, max_size_bytes |-> NULL]

\* sorted(..., key=created_at) and sorted(..., key=created_at, reverse=True):
\* both are stable, equal keys keep the order they came in
InsertAsc(s, x) ==
    LET k == Cardinality({i \in DOMAIN s : s[i].created_at <= x.created_at})
    IN SubSeq(s, 1, k) \o <<x>> \o SubSeq(s, k + 1, Len(s))

InsertDesc(s, x) ==
    LET k == Cardinality({i \in DOMAIN s : s[i].created_at >= x.created_at})
    IN SubSeq(s, 1, k) \o <<x>> \o SubSeq(s, k + 1, Len(s))

RECURSIVE sorted(_)
sorted(s) ==
    IF s = <<>> THEN <<>>
    ELSE InsertAsc(sorted(SubSeq(s, 1, Len(s) - 1)), s[Len(s)])

RECURSIVE sorted_reverse(_)
sorted_reverse(s) ==
    IF s = <<>> THEN <<>>
    ELSE InsertDesc(sorted_reverse(SubSeq(s, 1, Len(s) - 1)), s[Len(s)])

\* s[:k] and s[k:] for k >= 0, s[-k:] and s[:-k] for k > 0
Take(s, k) == SubSeq(s, 1, IF k < Len(s) THEN k ELSE Len(s))
After(s, k) == SubSeq(s, k + 1, Len(s))
TakeLast(s, k) == SubSeq(s, IF k < Len(s) THEN Len(s) - k + 1 ELSE 1, Len(s))
DropLast(s, k) == SubSeq(s, 1, Len(s) - k)

IdsOf(s) == {s[i].id : i \in DOMAIN s}
WithIds(s, ids) == SelectSeq(s, LAMBDA b : b.id \in ids)
WithoutIds(s, ids) == SelectSeq(s, LAMBDA b : b.id \notin ids)

RECURSIVE TotalSize(_)
TotalSize(s) == IF s = <<>> THEN 0 ELSE Head(s).size + TotalSize(Tail(s))

\* _apply_min_max_bounds without adding the demoted artifacts to delete
apply_min_max_bounds_lossy(keep, delete, retention) ==
    LET capped ==
            IF retention.max_backups # NULL /\ retention.max_backups >= 0
                   /\ Len(keep) > retention.max_backups
            THEN LET overflow == Len(keep) - retention.max_backups
                     keep_sorted == sorted(keep)
                 IN [keep |-> After(keep_sorted, overflow),
                     delete |-> sorted(delete)]
            ELSE [keep |-> keep, delete |-> delete]
    IN IF retention.min_backups # NULL /\ retention.min_backups > 0
              /\ Len(capped.keep) < retention.min_backups /\ capped.delete # <<>>
       THEN LET missing == retention.min_backups - Len(capped.keep)
                delete_sorted == sorted_reverse(capped.delete)
            IN [keep |-> sorted(capped.keep \o Take(delete_sorted, missing)),
                delete |-> sorted(After(delete_sorted, missing))]
       ELSE capped

\* _apply_min_max_bounds demoting the newest kept artifacts
apply_min_max_bounds_newest(keep, delete, retention) ==
    LET capped ==
            IF retention.max_backups # NULL /\ retention.max_backups >= 0
                   /\ Len(keep) > retention.max_backups
            THEN LET overflow == Len(keep) - retention.max_backups
                     keep_sorted == sorted(keep)
                 IN [keep |-> Take(keep_sorted, retention.max_backups),
                     delete |-> sorted(delete \o After(keep_sorted, retention.max_backups))]
            ELSE [keep |-> keep, delete |-> delete]
    IN IF retention.min_backups # NULL /\ retention.min_backups > 0
              /\ Len(capped.keep) < retention.min_backups /\ capped.delete # <<>>
       THEN LET missing == retention.min_backups - Len(capped.keep)
                delete_sorted == sorted_reverse(capped.delete)
            IN [keep |-> sorted(capped.keep \o Take(delete_sorted, missing)),
                delete |-> sorted(After(delete_sorted, missing))]
       ELSE capped

\* _apply_min_max_bounds
apply_min_max_bounds(keep, delete, retention) ==
    LET capped ==
            IF retention.max_backups # NULL /\ retention.max_backups >= 0
                   /\ Len(keep) > retention.max_backups
            THEN LET overflow == Len(keep) - retention.max_backups
                     keep_sorted == sorted(keep)
                 IN [keep |-> After(keep_sorted, overflow),
                     delete |-> sorted(delete \o Take(keep_sorted, overflow))]
            ELSE [keep |-> keep, delete |-> delete]
    IN IF retention.min_backups # NULL /\ retention.min_backups > 0
              /\ Len(capped.keep) < retention.min_backups /\ capped.delete # <<>>
       THEN LET missing == retention.min_backups - Len(capped.keep)
                delete_sorted == sorted_reverse(capped.delete)
            IN [keep |-> sorted(capped.keep \o Take(delete_sorted, missing)),
                delete |-> sorted(After(delete_sorted, missing))]
       ELSE capped

\* _apply_profile
ProfileDefaults(profile) ==
    IF profile = "low" THEN [daily |-> 1, weekly |-> 1, monthly |-> 3, yearly |-> 1]
    ELSE IF profile = "high" THEN [daily |-> 14, weekly |-> 8, monthly |-> 24, yearly |-> 5]
    ELSE [daily |-> 7, weekly |-> 4, monthly |-> 12, yearly |-> 3]

apply_profile(ret) ==
    IF ret.mode # "smart" THEN ret
    ELSE LET has_any_tier == \E v \in {ret.daily, ret.weekly, ret.monthly, ret.yearly} : v # NULL
             profile == IF ret.profile # "" THEN ret.profile
                        ELSE IF ~has_any_tier THEN "medium" ELSE ""
             defaults == ProfileDefaults(profile)
         IN IF profile = "" THEN ret
            ELSE [ret EXCEPT !.daily = IF @ = NULL THEN defaults.daily ELSE @,
                             !.weekly = IF @ = NULL THEN defaults.weekly ELSE @,
                             !.monthly = IF @ = NULL THEN defaults.monthly ELSE @,
                             !.yearly = IF @ = NULL THEN defaults.yearly ELSE @]

\* plan_retention, mode last_n, before the bounds
select_last_n(backups_sorted, retention) ==
    LET keep_last == IF retention.keep_last > 0 THEN retention.keep_last ELSE 0
    IN IF keep_last # 0
       THEN [keep |-> TakeLast(backups_sorted, keep_last),
             delete |-> DropLast(backups_sorted, keep_last)]
       ELSE [keep |-> <<>>, delete |-> backups_sorted]

\* plan_retention, mode max_age_days
select_max_age_days(backups_sorted, retention, t) ==
    IF retention.max_age_days = NULL THEN [keep |-> backups_sorted, delete |-> <<>>]
    ELSE LET cutoff == t - 24 * retention.max_age_days
             keep_last == IF retention.keep_last > 0 THEN retention.keep_last ELSE 0
             newest == IF keep_last # 0 THEN TakeLast(backups_sorted, keep_last) ELSE <<>>
             keep_set == IdsOf(newest)
                         \cup {backups_sorted[i].id : i \in
                                 {j \in DOMAIN backups_sorted :
                                     backups_sorted[j].created_at >= cutoff}}
         IN [keep |-> WithIds(backups_sorted, keep_set),
             delete |-> WithoutIds(backups_sorted, keep_set)]

\* plan_retention, mode max_size: for obj in newest_first[keep_last:], with no
\* break
RECURSIVE admit(_, _, _, _)
admit(rest, keep_set, total, max_bytes) ==
    IF rest = <<>> THEN keep_set
    ELSE IF total + Head(rest).size <= max_bytes
    THEN admit(Tail(rest), keep_set \cup {Head(rest).id}, total + Head(rest).size, max_bytes)
    ELSE admit(Tail(rest), keep_set, total, max_bytes)

select_max_size(backups_sorted, retention) ==
    IF retention.max_size_bytes = NULL THEN [keep |-> backups_sorted, delete |-> <<>>]
    ELSE LET newest_first == sorted_reverse(backups_sorted)
             keep_last == IF retention.keep_last > 0 THEN retention.keep_last ELSE 0
             first == IdsOf(Take(newest_first, keep_last))
             total == TotalSize(WithIds(newest_first, first))
             keep_set == admit(After(newest_first, keep_last), first, total,
                               retention.max_size_bytes)
         IN [keep |-> WithIds(backups_sorted, keep_set),
             delete |-> WithoutIds(backups_sorted, keep_set)]

\* plan_retention, smart mode: the tier an artifact beyond keep_last falls
\* into and the key of its bucket there ("" when it falls into none)
Bucket(obj, eff, t) ==
    LET d == DateOf(obj.created_at)
        today == DateOf(t)
        age_days == today - d
        week_delta == (IsoYearOf(today) - IsoYearOf(d)) * 52 + (IsoWeekOf(today) - IsoWeekOf(d))
        month_delta == (YearOf(today) - YearOf(d)) * 12 + (MonthOf(today) - MonthOf(d))
        year_delta == YearOf(today) - YearOf(d)
    IN IF eff.daily # NULL /\ age_days < eff.daily
       THEN [tier |-> "daily", key |-> d]
       ELSE IF eff.weekly # NULL /\ 0 <= week_delta /\ week_delta < eff.weekly
       THEN [tier |-> "weekly", key |-> IsoYearOf(d) * 100 + IsoWeekOf(d)]
       ELSE IF eff.monthly # NULL /\ 0 <= month_delta /\ month_delta < eff.monthly
       THEN [tier |-> "monthly", key |-> YearOf(d) * 100 + MonthOf(d)]
       ELSE IF eff.yearly # NULL /\ 0 <= year_delta /\ year_delta < eff.yearly
       THEN [tier |-> "yearly", key |-> YearOf(d)]
       ELSE [tier |-> "", key |-> 0]

\* for idx, obj in enumerate(newest_first): the indices kept (from 1) and the
\* buckets filled so far
RECURSIVE smart_loop(_, _, _, _, _, _, _)
smart_loop(newest_first, idx, keep_last, eff, t, keep_indices, buckets) ==
    IF idx > Len(newest_first) THEN keep_indices
    ELSE IF idx <= keep_last
    THEN smart_loop(newest_first, idx + 1, keep_last, eff, t, keep_indices \cup {idx}, buckets)
    ELSE LET b == Bucket(newest_first[idx], eff, t)
         IN IF b.tier # "" /\ b \notin buckets
            THEN smart_loop(newest_first, idx + 1, keep_last, eff, t,
                            keep_indices \cup {idx}, buckets \cup {b})
            ELSE smart_loop(newest_first, idx + 1, keep_last, eff, t, keep_indices, buckets)

AtIndices(s, I) == [k \in 1..Cardinality({i \in DOMAIN s : i \in I}) |->
                      s[CHOOSE i \in DOMAIN s :
                          i \in I /\ Cardinality({j \in I : j \in DOMAIN s /\ j <= i}) = k]]

select_smart(backups_sorted, eff, t) ==
    LET newest_first == sorted_reverse(backups_sorted)
        keep_last == IF eff.keep_last > 0 THEN eff.keep_last ELSE 0
        keep_indices == smart_loop(newest_first, 1, keep_last, eff, t, {}, {})
    IN [keep |-> sorted(AtIndices(newest_first, keep_indices)),
        delete |-> sorted(AtIndices(newest_first, DOMAIN newest_first \ keep_indices))]

\* plan_retention up to the call of _apply_min_max_bounds: keep, delete and the
\* configuration the bounds are taken from
select_by_mode(backups, retention, t) ==
    LET backups_sorted == sorted(backups)
        eff == apply_profile(retention)
        sel == IF retention.mode = "last_n" THEN select_last_n(backups_sorted, retention)
               ELSE IF retention.mode = "max_age_days"
               THEN select_max_age_days(backups_sorted, retention, t)
               ELSE IF retention.mode = "max_size" THEN select_max_size(backups_sorted, retention)
               ELSE select_smart(backups_sorted, eff, t)
    IN [keep |-> sel.keep, delete |-> sel.delete,
        retention |-> IF retention.mode \in {"last_n", "max_age_days", "max_size"}
                      THEN retention ELSE eff]

\* plan_retention with all its modes: (keep, delete)
plan_retention_by_mode(backups, retention, t) ==
    IF backups = <<>> THEN [keep |-> <<>>, delete |-> <<>>]
    ELSE LET sel == select_by_mode(backups, retention, t)
         IN apply_min_max_bounds(sel.keep, sel.delete, sel.retention)

\* ------------------------------------------- stored backups of a destination
\* a backup_id is a string, here a sequence of characters of a small alphabet
Chars == {"/", ".", "b", "x"}

Strings(n) == UNION {[1..k -> Chars] : k \in 0..n}

\* the directory a local or SFTP destination is configured with (config
\* "path"), with and without a trailing slash
BasePaths == {<<"/", "b">>, <<"/", "b", "/">>}

\* str.startswith
startswith(s, prefix) ==
    Len(s) >= Len(prefix) /\ SubSeq(s, 1, Len(prefix)) = prefix

\* str.rstrip("/")
RECURSIVE rstrip(_)
rstrip(s) ==
    IF s # <<>> /\ s[Len(s)] = "/" THEN rstrip(SubSeq(s, 1, Len(s) - 1)) ELSE s

\* str.split("/")
RECURSIVE SplitFrom(_, _, _, _)
SplitFrom(s, i, cur, acc) ==
    IF i > Len(s) THEN Append(acc, cur)
    ELSE IF s[i] = "/" THEN SplitFrom(s, i + 1, <<>>, Append(acc, cur))
    ELSE SplitFrom(s, i + 1, Append(cur, s[i]), acc)

split(s) == SplitFrom(s, 1, <<>>, <<>>)

DOT == <<".">>
DOTDOT == <<".", ".">>

\* PurePosixPath(s).parts without the root: empty and "." segments are dropped
parts(s) == SelectSeq(split(s), LAMBDA g : g # <<>> /\ g # DOT)

\* PurePosixPath(s).is_absolute()
is_absolute(s) == s # <<>> /\ s[1] = "/"

\* the directory entries the file system walks through for an absolute path:
\* ".." steps back to the parent, and the parent of the root is the root
RECURSIVE Walk(_, _, _)
Walk(segs, i, at) ==
    IF i > Len(segs) THEN at
    ELSE IF segs[i] = DOTDOT
    THEN Walk(segs, i + 1, IF at = <<>> THEN at ELSE SubSeq(at, 1, Len(at) - 1))
    ELSE Walk(segs, i + 1, Append(at, segs[i]))

resolve(path) == Walk(parts(path), 1, <<>>)

\* Path(base_path) / backup_id
joinpath(base_path, backup_id) ==
    IF is_absolute(backup_id) THEN backup_id ELSE rstrip(base_path) \o <<"/">> \o backup_id

\* the files of the Drive account and their parents; <<"b">> is the folder
\* the destination is configured with (folder_id)
FOLDER_ID == <<"b">>

DriveParents ==
    [f \in {<<"b">>, <<"b", "x">>, <<"b", "x", "x">>, <<"x">>, <<"x", "b">>, <<"x", "x">>} |->
        CASE f = <<"b">> -> {}
          [] f = <<"b", "x">> -> {<<"b">>}
          [] f = <<"b", "x", "x">> -> {<<"b", "x">>}
          [] f = <<"x">> -> {}
          [] f = <<"x", "b">> -> {<<"x">>}
          [] f = <<"x", "x">> -> {<<"x">>, <<"b", "x">>}]

\* GoogleDriveStorage._file_is_within_destination: files().get raises for an
\* id that is not a file of the account; the walk over the parents
RECURSIVE ReachesFolder(_, _)
ReachesFolder(stack, visited) ==
    IF stack = {} THEN FALSE
    ELSE LET current == CHOOSE c \in stack : TRUE
         IN IF current \in visited THEN ReachesFolder(stack \ {current}, visited)
            ELSE IF current = FOLDER_ID THEN TRUE
            ELSE ReachesFolder((stack \ {current}) \cup
                                   (IF current \in DOMAIN DriveParents
                                    THEN DriveParents[current] \ visited ELSE {}),
                               visited \cup {current})

file_is_within_destination(file_id) ==
    /\ file_id # <<>>
    /\ file_id \in DOMAIN DriveParents
    /\ DriveParents[file_id] # {}
    /\ ReachesFolder(DriveParents[file_id], {})

\* BackupService._validate_destination_backup_id: TRUE when it returns, FALSE
\* when it raises ValueError
validate_destination_backup_id(destination, backup_id) ==
    /\ backup_id # <<>>
    /\ destination.destination_type = "local" =>
           ~is_absolute(backup_id) /\ \A i \in DOMAIN parts(backup_id) : parts(backup_id)[i] # DOTDOT
    /\ destination.destination_type = "sftp" =>
           startswith(backup_id, rstrip(destination.path) \o <<"/">>)

\* download_backup and delete_backups of the Drive provider raise ValueError
\* (_assert_file_within_destination) before they call the Drive API; the other
\* providers have no check of their own
ProviderRefuses(destination, backup_id) ==
    /\ destination.destination_type = "google_drive"
    /\ ~file_is_within_destination(backup_id)

\* the file the provider's download_backup / delete_backups acts on: the
\* directory entries from the root of the file system, or the Drive file id
ProviderTarget(destination, backup_id) ==
    CASE destination.destination_type = "local" ->
             resolve(joinpath(destination.path, backup_id))
      [] destination.destination_type = "sftp" -> resolve(backup_id)
      [] destination.destination_type = "google_drive" -> backup_id

\* ---------------------------------------------------------------------- state
VARIABLES now, ticks, nops, lockFile, schedules, runs, audit, db, proc,
          tmpdir, store, runner, call

vars == <<now, ticks, nops, lockFile, schedules, runs, audit, db, proc,
          tmpdir, store, runner, call>>

\* operation.lock: {"operation", "timestamp"}; owner is history (the request
\* whose write_text created the record)
NoRecord == [exists |-> FALSE, operation |-> "", timestamp |-> 0, owner |-> 0]

\* per request: the handler it runs, where it is, and its local variables.
\* holds, acq and touched are history: whether _acquire_lock returned True and
\* _release_lock has not run yet, when it returned, and whether this request
\* modified the target database.  started_at / last_run_at are written but
\* never read by the engine and are left out.  temp_path is whether the local
\* variable of that name has been assigned; tmp is the set of temporary files
\* the invocation has created and that still exist.  drive and encrypted
\* describe the artifact a restore-now request names (destination_type is
\* google_drive, the file is an encrypted backup) and checks is history, the
\* checks of restore_now that have succeeded; the three are kept up to the call
\* of _restore_backup_file, after which nothing depends on them.  count is the
\* "count" of the response of a run-due request the runner is waiting for
\* (NULL for the requests of other clients, whose response nobody reads).
IdleProc == [op |-> "idle", pc |-> "idle", trigger |-> "", queue |-> <<>>, sid |-> 0,
             tgt |-> "", run |-> 0, aud |-> 0, di |-> 0, nd |-> 0,
             svc |-> "", err |-> "", holds |-> FALSE, acq |-> 0,
             touched |-> FALSE, temp_path |-> FALSE, tmp |-> {},
             drive |-> FALSE, encrypted |-> FALSE, checks |-> {}, count |-> NULL]

\* the runner process: its position in main_loop / run_cycle, its arguments
\* and the local variables of run_cycle; issued (the run-due requests sent in
\* this tick), t0, run0 and due0 (the time, the number of Runs and the due
\* schedules at the start of the tick) are history
RunnerOff == [pc |-> "off", max_schedules |-> 0, drain_mode |-> FALSE,
              drain_max_batches |-> 0, batches |-> 0, issued |-> 0, executed |-> 0,
              t0 |-> 0, run0 |-> 0, due0 |-> {}]

\* the call of a helper function under evaluation (schedule timing, retention
\* planner, backup id validation): its name, its arguments and, once it has
\* returned, its result
NoCall == [fn |-> "", done |-> FALSE]

Quiescent ==
    /\ now = 0
    /\ ticks = 0
    /\ nops = 0
    /\ lockFile = [f \in Families |-> NoRecord]
    /\ schedules = <<>>
    /\ runs = <<>>
    /\ audit = <<>>
    /\ db = [t \in Targets |-> "intact"]
    /\ proc = [p \in Procs |-> IdleProc]
    /\ tmpdir = {}
    /\ store = [d \in Dests |-> InitialArtifacts]
    /\ runner = RunnerOff

Init ==
    /\ Quiescent
    /\ call = NoCall

Fam(p) == FamilyOf(proc[p].tgt)

\* a new request is served by the first free worker
FirstFree(p) == /\ proc[p].pc = "idle"
                /\ \A q \in Procs : proc[q].pc = "idle" => p <= q

Seti(p, r) == proc' = [proc EXCEPT ![p] = r]

\* where an exception raised inside the pipeline's try block is handled
HandlerOf(op) == IF op = "restore_now" THEN "rs_handler" ELSE "handler"

Raise(p, e) == Seti(p, [proc[p] EXCEPT !.pc = HandlerOf(proc[p].op), !.err = e])

\* ------------------------------------------------------------------- clock
Tick ==
    /\ ticks < MaxTicks
    /\ ticks' = ticks + 1
    /\ now' = Instant(ticks + 1)
    /\ UNCHANGED <<nops, lockFile, schedules, runs, audit, db, proc, tmpdir, store, runner, call>>

\* ------------------------------------------------------- configuration API
\* AutomationRepository.create_schedule (enabled defaults to true)
CreateSchedule ==
    /\ Len(schedules) < MaxSchedules
    /\ \E c \in ScheduleConfigs :
         schedules' = Append(schedules,
             [target |-> c.target, enabled |-> TRUE,
              interval_seconds |-> c.interval_seconds,
              retention |-> [run_at_time |-> c.run_at_time, keep_last |-> c.keep_last],
              ndest |-> c.ndest, next_run_at |-> now])
    /\ UNCHANGED <<now, ticks, nops, lockFile, runs, audit, db, proc, tmpdir, store, runner, call>>

\* ------------------------------------------------ operation lock (per family)
\* first statement of the body that runs once the lock is taken
BodyOf(p) == IF proc[p].svc = "restore" THEN "drop"
             ELSE IF Fam(p) = "neo4j" THEN "neo_mktemp" ELSE "dump"

\* the timeout test of check_operation_lock and _acquire_lock
IsStale_strict(rec, t) == t - rec.timestamp > LOCK_TIMEOUT

IsStale(rec, t) == t - rec.timestamp >= LOCK_TIMEOUT

\* the raise in front of the service's try block: nothing is released
Reject_inTry(p, e) == Seti(p, [proc[p] EXCEPT !.pc = "release", !.err = e])

Reject(p, e) == Raise(p, e)

\* check_operation_lock: exists() and read_text()
LkCheck(p) ==
    /\ proc[p].pc = "lk_check"
    /\ LET rec == lockFile[Fam(p)] IN
         IF ~rec.exists
         THEN Seti(p, [proc[p] EXCEPT !.pc = "acq_exists"])
         ELSE IF IsStale(rec, now)
         THEN Seti(p, [proc[p] EXCEPT !.pc = "lk_unlink"])
         ELSE Reject(p, "operation_in_progress")
    /\ UNCHANGED <<now, ticks, nops, lockFile, schedules, runs, audit, db, tmpdir, store, runner, call>>

\* check_operation_lock: unlink() of the record it found stale
LkUnlink(p) ==
    /\ proc[p].pc = "lk_unlink"
    /\ lockFile' = [lockFile EXCEPT ![Fam(p)] = NoRecord]
    /\ Seti(p, [proc[p] EXCEPT !.pc = "acq_exists"])
    /\ UNCHANGED <<now, ticks, nops, schedules, runs, audit, db, tmpdir, store, runner, call>>

\* _acquire_lock: lock_file.exists()
AcqExists(p) ==
    /\ proc[p].pc = "acq_exists"
    /\ Seti(p, [proc[p] EXCEPT !.pc = IF lockFile[Fam(p)].exists
                                      THEN "acq_read" ELSE "acq_write"])
    /\ UNCHANGED <<now, ticks, nops, lockFile, schedules, runs, audit, db, tmpdir, store, runner, call>>

\* _acquire_lock: read_text() and the timeout test; a file that vanished
\* since exists() raises, and the except branch returns True
AcqRead(p) ==
    /\ proc[p].pc = "acq_read"
    /\ LET rec == lockFile[Fam(p)] IN
         IF ~rec.exists
         THEN Seti(p, [proc[p] EXCEPT !.pc = BodyOf(p), !.holds = TRUE, !.acq = now])
         ELSE IF ~IsStale(rec, now)
         THEN Reject(p, "acquire_failed")
         ELSE Seti(p, [proc[p] EXCEPT !.pc = "acq_write"])
    /\ UNCHANGED <<now, ticks, nops, lockFile, schedules, runs, audit, db, tmpdir, store, runner, call>>

\* _acquire_lock: write_text() and return True
AcqWrite(p) ==
    /\ proc[p].pc = "acq_write"
    /\ lockFile' = [lockFile EXCEPT ![Fam(p)] =
           [exists |-> TRUE, operation |-> proc[p].svc, timestamp |-> now,
            owner |-> p]]
    /\ Seti(p, [proc[p] EXCEPT !.pc = BodyOf(p), !.holds = TRUE, !.acq = now])
    /\ UNCHANGED <<now, ticks, nops, schedules, runs, audit, db, tmpdir, store, runner, call>>

\* _release_lock in the finally block, then the service returns or re-raises
AfterRelease(p) == IF proc[p].err # "" THEN HandlerOf(proc[p].op)
                   ELSE IF proc[p].svc = "restore" THEN "rs_finish" ELSE "encrypt"

\* the file restore_now hands to restore_backup (restore_input_path)
RestoreInput(r) == IF "decrypted" \in r.tmp THEN "decrypted" ELSE "downloaded"

\* the finally block of the service: _release_lock, and restore_backup unlinks
\* the file it was given; create_backup_to_temp returns the dump, which the
\* caller assigns to temp_path
Release(p) ==
    /\ proc[p].pc = "release"
    /\ lockFile' = [lockFile EXCEPT ![Fam(p)] = NoRecord]
    /\ Seti(p, [proc[p] EXCEPT !.pc = AfterRelease(p), !.holds = FALSE, !.acq = 0,
                     !.tmp = IF proc[p].svc = "restore" THEN @ \ {RestoreInput(proc[p])}
                             ELSE @,
                     !.temp_path = IF proc[p].svc = "backup" THEN proc[p].err = ""
                                   ELSE @])
    /\ UNCHANGED <<now, ticks, nops, schedules, runs, audit, db, tmpdir, store, runner, call>>

\* ------------------------------------------------------ backup services
\* Neo4jBackupService.create_backup_to_temp: NamedTemporaryFile between the
\* acquisition and the try block
NeoMktemp(p) ==
    /\ proc[p].pc = "neo_mktemp"
    /\ \/ Seti(p, [proc[p] EXCEPT !.pc = "dump", !.tmp = @ \cup {"dump"}])
       \/ Raise(p, "tempfile_failed")
    /\ UNCHANGED <<now, ticks, nops, lockFile, schedules, runs, audit, db, tmpdir, store, runner, call>>

\* the temporary files left by the dump: the SQL service creates its
\* NamedTemporaryFile inside _backup_postgresql / _backup_mysql / _backup_sqlite
\* and raises without removing it; the Neo4j service removes its file in the
\* except branch
DumpFiles(family, e, files) ==
    IF family = "neo4j" /\ e # "" THEN files \ {"dump"} ELSE files \cup {"dump"}

\* the dump itself (pg_dump, mysqldump, sqlite copy, Cypher export)
Dump(p) ==
    /\ proc[p].pc = "dump"
    /\ \E e \in {"", "dump_failed"} :
         Seti(p, [proc[p] EXCEPT !.pc = "release", !.err = e,
                                 !.tmp = DumpFiles(Fam(p), e, @)])
    /\ UNCHANGED <<now, ticks, nops, lockFile, schedules, runs, audit, db, tmpdir, store, runner, call>>

\* restore_backup: _drop_database
Drop(p) ==
    /\ proc[p].pc = "drop"
    /\ \/ /\ db' = [db EXCEPT ![proc[p].tgt] = "dropped"]
          /\ Seti(p, [proc[p] EXCEPT !.pc = "apply", !.touched = TRUE])
       \/ /\ UNCHANGED db
          /\ Seti(p, [proc[p] EXCEPT !.pc = "release", !.err = "drop_failed"])
    /\ UNCHANGED <<now, ticks, nops, lockFile, schedules, runs, audit, tmpdir, store, runner, call>>

\* restore_backup: _restore_postgresql / _restore_mysql / _restore_sqlite / Cypher
Apply(p) ==
    /\ proc[p].pc = "apply"
    /\ \/ /\ db' = [db EXCEPT ![proc[p].tgt] = "restored"]
          /\ Seti(p, [proc[p] EXCEPT !.pc = "release"])
       \/ /\ UNCHANGED db
          /\ Seti(p, [proc[p] EXCEPT !.pc = "release", !.err = "restore_failed"])
    /\ UNCHANGED <<now, ticks, nops, lockFile, schedules, runs, audit, tmpdir, store, runner, call>>

\* ------------------------------------------------------------ bookkeeping
\* a BackupRun row; type is the trigger of the invocation (the trigger of its
\* backup audit event, details.type once finished), and changes, raised and ended are
\* history: how often status was committed, whether the except block of the
\* invocation ran, and whether the invocation has returned or raised
NewRun(sid, trigger) ==
    [schedule_id |-> sid, type |-> trigger, status |-> "started",
     error_message |-> FALSE, changes |-> 0, raised |-> FALSE, ended |-> FALSE]

NewAudit(operation, trigger, run) ==
    [operation |-> operation, trigger |-> trigger, status |-> "started", run |-> run]

SetRun(rs, r, st) == [rs EXCEPT ![r].status = st,
                                ![r].error_message = (st = "failed"),
                                ![r].changes = @ + 1]

SetAudit(as, a, st) == [as EXCEPT ![a].status = st]

EndRun(rs, r, raised) == [rs EXCEPT ![r].ended = TRUE, ![r].raised = raised]

\* the request goes on with the next selected schedule, or returns (to the
\* runner: the response is on its way)
NextAfterExec(r) ==
    IF r.op \in {"run_due", "run_enabled_now"} /\ r.queue # <<>>
    THEN [IdleProc EXCEPT !.op = r.op, !.trigger = r.trigger,
                          !.queue = Tail(r.queue), !.sid = Head(r.queue),
                          !.count = r.count, !.pc = "ex_begin"]
    ELSE IF r.count # NULL
    THEN [IdleProc EXCEPT !.op = r.op, !.count = r.count, !.pc = "respond"]
    ELSE IdleProc

\* ------------------------------------------------------- schedule executor
RUNNER_MAX_SCHEDULES == 10

IsDue(i) == /\ schedules[i].enabled
            /\ (schedules[i].next_run_at = NULL \/ schedules[i].next_run_at <= now)

\* ORDER BY next_run_at ASC NULLS FIRST
RECURSIVE OrderByNextRun(_)
OrderByNextRun(S) ==
    IF S = {} THEN <<>>
    ELSE LET m == CHOOSE i \in S : \A j \in S :
                     \/ schedules[i].next_run_at < schedules[j].next_run_at
                     \/ (schedules[i].next_run_at = schedules[j].next_run_at /\ i <= j)
         IN <<m>> \o OrderByNextRun(S \ {m})

\* ORDER BY created_at DESC
RECURSIVE OrderByCreatedDesc(_)
OrderByCreatedDesc(S) ==
    IF S = {} THEN <<>>
    ELSE LET m == CHOOSE i \in S : \A j \in S : i >= j
         IN <<m>> \o OrderByCreatedDesc(S \ {m})

Limit(q, n) == SubSeq(q, 1, IF Len(q) < n THEN Len(q) ELSE n)

StartLoop(p, op, trigger, q, count) ==
    Seti(p, NextAfterExec([IdleProc EXCEPT !.op = op, !.trigger = trigger,
                                           !.queue = q, !.count = count]))

\* ScheduleExecutor.run_due: the query; the loop body is ExBegin .. Handler.
\* "count" is len(executed): every selected schedule is appended, as success
\* or as failed
run_due(p, max_schedules, from_runner) ==
    /\ FirstFree(p)
    /\ LET q == Limit(OrderByNextRun({i \in DOMAIN schedules : IsDue(i)}),
                      max_schedules)
       IN /\ nops + Len(q) <= MaxOps
          /\ nops' = nops + Len(q)
          /\ StartLoop(p, "run_due", "scheduled", q,
                       IF from_runner THEN Len(q) ELSE NULL)
    /\ UNCHANGED <<now, ticks, lockFile, schedules, runs, audit, db, tmpdir, store, call>>

\* POST /automation/runner/run-due from a client other than the runner
RunDue(p) ==
    /\ run_due(p, RUNNER_MAX_SCHEDULES, FALSE)
    /\ UNCHANGED runner

\* ScheduleExecutor.run_enabled_now
RunEnabledNow(p) ==
    /\ FirstFree(p)
    /\ LET q == Limit(OrderByCreatedDesc({i \in DOMAIN schedules : schedules[i].enabled}),
                      RUNNER_MAX_SCHEDULES)
       IN /\ nops + Len(q) <= MaxOps
          /\ nops' = nops + Len(q)
          /\ StartLoop(p, "run_enabled_now", "manual", q, NULL)
    /\ UNCHANGED <<now, ticks, lockFile, schedules, runs, audit, db, tmpdir, store, runner, call>>

\* ScheduleExecutor.run_now
RunNow(p) ==
    /\ FirstFree(p)
    /\ nops < MaxOps
    /\ nops' = nops + 1
    /\ \E sid \in SchedIds :
         Seti(p, [IdleProc EXCEPT !.op = "run_now", !.trigger = "manual",
                                  !.sid = sid, !.pc = "ex_begin"])
    /\ UNCHANGED <<now, ticks, lockFile, schedules, runs, audit, db, tmpdir, store, runner, call>>

\* _create_backup_file: decrypt_secrets raises, or create_backup_to_temp is called
SecretsOutcomes == {"", "secrets_failed"}

CreateBackupFile(e) == IF e = "" THEN "lk_check" ELSE "handler"

\* _execute_schedule: load the schedule, add the audit event and the Run, and
\* enter _create_backup_file
ExBegin(p) ==
    /\ proc[p].pc = "ex_begin"
    /\ IF proc[p].sid \notin DOMAIN schedules
       THEN /\ Seti(p, NextAfterExec(proc[p]))
            /\ UNCHANGED <<runs, audit>>
       ELSE /\ runs' = Append(runs, NewRun(proc[p].sid, proc[p].trigger))
            /\ audit' = Append(audit, NewAudit("backup", proc[p].trigger, Len(runs) + 1))
            /\ \E e \in SecretsOutcomes :
                 Seti(p, [proc[p] EXCEPT !.pc = CreateBackupFile(e), !.err = e,
                                         !.svc = "backup",
                                         !.tgt = schedules[proc[p].sid].target,
                                         !.nd = schedules[proc[p].sid].ndest,
                                         !.run = Len(runs) + 1, !.aud = Len(audit) + 1, !.di = 1])
    /\ UNCHANGED <<now, ticks, nops, lockFile, schedules, db, tmpdir, store, runner, call>>

AfterPrepare(p) == IF proc[p].di <= proc[p].nd THEN "upload" ELSE "finish"

\* _encrypt_backup_to_temp when encryption is on
Encrypt(p) ==
    /\ proc[p].pc = "encrypt"
    /\ \/ Seti(p, [proc[p] EXCEPT !.pc = AfterPrepare(p), !.tmp = @ \cup {"encrypted"}])
       \/ Raise(p, "encrypt_failed")
    /\ UNCHANGED <<now, ticks, nops, lockFile, schedules, runs, audit, db, tmpdir, store, runner, call>>

\* dest_name of the artifact the invocation uploads
DestName(r) ==
    IF r.op = "backup_now" THEN Artifact(r.tgt, "manual", 0, r.run)
    ELSE Artifact(r.tgt, "sched", r.sid, r.run)

\* provider.upload_backup for destination di
Upload(p) ==
    /\ proc[p].pc = "upload"
    /\ \/ /\ store' = [store EXCEPT ![proc[p].di] = Append(@, DestName(proc[p]))]
          /\ Seti(p, IF proc[p].op = "backup_now"
                     THEN [proc[p] EXCEPT !.di = @ + 1,
                               !.pc = IF proc[p].di + 1 <= proc[p].nd THEN "upload" ELSE "finish"]
                     ELSE [proc[p] EXCEPT !.pc = "retention"])
       \/ /\ Raise(p, "upload_failed")
          /\ UNCHANGED store
    /\ UNCHANGED <<now, ticks, nops, lockFile, schedules, runs, audit, db, tmpdir, runner, call>>

\* what the sweep of destination di does after the listing: nothing to
\* delete, delete_backups succeeds, or delete_backups raises and the
\* exception is raised again after the delete_backup audit event is failed
SweepOutcomes(delete) == IF delete = <<>> THEN {""} ELSE {"", "delete_failed"}

\* the retention sweep of destination di, whatever the trigger: list_backups
\* under the schedule's prefix, plan_retention and delete_backups
Retention(p) ==
    /\ proc[p].pc = "retention"
    /\ LET r == proc[p]
           existing == list_backups(store[r.di], retention_prefix(r.tgt, r.sid))
           delete == plan_retention(existing, schedules[r.sid].retention)
       IN \/ \E e \in SweepOutcomes(delete) :
               IF e = ""
               THEN /\ store' = [store EXCEPT ![r.di] = delete_backups(@, delete)]
                    /\ Seti(p, [r EXCEPT !.di = @ + 1,
                                    !.pc = IF r.di + 1 <= r.nd THEN "upload" ELSE "finish"])
               ELSE /\ Raise(p, e)
                    /\ UNCHANGED store
          \/ /\ Raise(p, "list_failed")
             /\ UNCHANGED store
    /\ UNCHANGED <<now, ticks, nops, lockFile, schedules, runs, audit, db, tmpdir, runner, call>>

\* the next_run_at the bookkeeping transaction assigns (RAISED: compute_next_run_at raised)
AdvancedNextRun_anyTrigger(sid, trigger, finished_at) ==
    compute_next_run_at(finished_at, schedules[sid].interval_seconds,
                        schedules[sid].retention)

AdvancedNextRun(sid, trigger, finished_at) ==
    IF trigger = "scheduled"
    THEN compute_next_run_at(finished_at, schedules[sid].interval_seconds,
                             schedules[sid].retention)
    ELSE schedules[sid].next_run_at

Bookkeep(sid, nra) == [schedules EXCEPT ![sid].next_run_at = nra]

\* the finally block of _execute_schedule and of backup_now: encrypted_path and
\* temp_path are unlinked when they have been assigned; what is left of the
\* invocation's temporary files
BackupFinally(r) ==
    r.tmp \ ({"encrypted"} \cup (IF r.temp_path THEN {"dump"} ELSE {}))

\* success path: one transaction for Run, audit event and schedule, then return
FinishExec(p) ==
    /\ proc[p].pc = "finish"
    /\ proc[p].op # "backup_now"
    /\ LET r == proc[p]
           nra == AdvancedNextRun(r.sid, r.trigger, now)
       IN IF nra = RAISED
          THEN /\ Raise(p, "ValueError")
               /\ UNCHANGED <<runs, audit, schedules, tmpdir>>
          ELSE /\ runs' = EndRun(SetRun(runs, r.run, "success"), r.run, FALSE)
               /\ audit' = SetAudit(audit, r.aud, "success")
               /\ schedules' = Bookkeep(r.sid, nra)
               /\ tmpdir' = tmpdir \cup BackupFinally(r)
               /\ Seti(p, NextAfterExec(r))
    /\ UNCHANGED <<now, ticks, nops, lockFile, db, store, runner, call>>

\* except path: the same transaction with status failed, then re-raise
HandlerExec(p) ==
    /\ proc[p].pc = "handler"
    /\ proc[p].op # "backup_now"
    /\ LET r == proc[p]
           nra == AdvancedNextRun(r.sid, r.trigger, now)
       IN IF nra = RAISED
          THEN /\ runs' = EndRun(runs, r.run, TRUE)
               /\ UNCHANGED <<audit, schedules>>
          ELSE /\ runs' = EndRun(SetRun(runs, r.run, "failed"), r.run, TRUE)
               /\ audit' = SetAudit(audit, r.aud, "failed")
               /\ schedules' = Bookkeep(r.sid, nra)
    /\ tmpdir' = tmpdir \cup BackupFinally(proc[p])
    /\ Seti(p, NextAfterExec(proc[p]))
    /\ UNCHANGED <<now, ticks, nops, lockFile, db, store, runner, call>>

\* ------------------------------------------------------------ backup-now
\* BackupExecutionService.backup_now up to the Run record; the request names
\* a target and either local storage or a list of destination ids
BackupNow(p) ==
    /\ FirstFree(p)
    /\ nops < MaxOps
    /\ nops' = nops + 1
    /\ \E t \in Targets, use_local_storage \in BOOLEAN, ndest \in {0, 2} :
         IF ~use_local_storage /\ ndest = 0
         THEN /\ Seti(p, IdleProc)
              /\ UNCHANGED <<runs, audit>>
         ELSE /\ runs' = Append(runs, NewRun(0, "manual"))
              /\ audit' = Append(audit, NewAudit("backup", "manual", Len(runs) + 1))
              /\ \E e \in SecretsOutcomes :
                   Seti(p, [IdleProc EXCEPT !.op = "backup_now", !.trigger = "manual",
                                !.tgt = t, !.svc = "backup",
                                !.pc = CreateBackupFile(e), !.err = e,
                                !.nd = IF use_local_storage THEN 1 ELSE ndest,
                                !.run = Len(runs) + 1, !.aud = Len(audit) + 1, !.di = 1])
    /\ UNCHANGED <<now, ticks, lockFile, schedules, db, tmpdir, store, runner, call>>

\* backup_now success path: Run, then audit event
FinishNow(p) ==
    /\ proc[p].pc = "finish"
    /\ proc[p].op = "backup_now"
    /\ runs' = EndRun(SetRun(runs, proc[p].run, "success"), proc[p].run, FALSE)
    /\ audit' = SetAudit(audit, proc[p].aud, "success")
    /\ tmpdir' = tmpdir \cup BackupFinally(proc[p])
    /\ Seti(p, IdleProc)
    /\ UNCHANGED <<now, ticks, nops, lockFile, schedules, db, store, runner, call>>

\* backup_now except path
HandlerNow(p) ==
    /\ proc[p].pc = "handler"
    /\ proc[p].op = "backup_now"
    /\ runs' = EndRun(SetRun(runs, proc[p].run, "failed"), proc[p].run, TRUE)
    /\ audit' = SetAudit(audit, proc[p].aud, "failed")
    /\ tmpdir' = tmpdir \cup BackupFinally(proc[p])
    /\ Seti(p, IdleProc)
    /\ UNCHANGED <<now, ticks, nops, lockFile, schedules, db, store, runner, call>>

\* ----------------------------------------------------------- restore-now
\* BackupExecutionService.restore_now up to the audit event
RestoreNow(p) ==
    /\ FirstFree(p)
    /\ nops < MaxOps
    /\ nops' = nops + 1
    /\ \E t \in Targets :
         Seti(p, [IdleProc EXCEPT !.op = "restore_now", !.trigger = "manual",
                      !.tgt = t, !.pc = "rs_prepare",
                      !.aud = Len(audit) + 1])
    /\ audit' = Append(audit, NewAudit("restore", "manual", 0))
    /\ UNCHANGED <<now, ticks, lockFile, schedules, runs, db, tmpdir, store, runner, call>>

\* the checks of restore_now's try block in program order: backup-id
\* validation, download, password and decryption for an encrypted artifact, the
\* filename-suffix check unless the destination is a Google Drive, and
\* compatibility validation
SuffixChecked_never(drive) == FALSE

SuffixChecked(drive) == ~drive

RestoreChecks(drive, encrypted) ==
    <<"backup_id", "download">>
    \o (IF encrypted THEN <<"password", "decrypt">> ELSE <<>>)
    \o (IF SuffixChecked(drive) THEN <<"suffix">> ELSE <<>>)
    \o <<"compatibility">>

\* the temporary files that exist once the checks in passed have succeeded and
\* the next one has run: mkstemp follows the backup-id validation, and
\* decrypt_to_temporary_file removes its output when it fails
RestoreFiles(passed) ==
    (IF "backup_id" \in passed THEN {"downloaded"} ELSE {})
    \cup (IF "decrypt" \in passed THEN {"decrypted"} ELSE {})

\* the try block of restore_now up to the call of _restore_backup_file: the
\* first k checks succeed; the next one raises, or all have passed
RsPrepare(p) ==
    /\ proc[p].pc = "rs_prepare"
    /\ \E drive \in BOOLEAN, encrypted \in BOOLEAN :
         LET cs == RestoreChecks(drive, encrypted) IN
         \E k \in 0..Len(cs) :
            LET passed == {cs[i] : i \in 1..k}
                r == [proc[p] EXCEPT !.drive = drive, !.encrypted = encrypted,
                                     !.checks = passed,
                                     !.tmp = RestoreFiles(passed),
                                     !.temp_path = ("backup_id" \in passed)]
            IN IF k = Len(cs)
               THEN Seti(p, [r EXCEPT !.pc = "rs_restore"])
               ELSE Seti(p, [r EXCEPT !.pc = "rs_handler", !.err = cs[k + 1]])
    /\ UNCHANGED <<now, ticks, nops, lockFile, schedules, runs, audit, db, tmpdir, store, runner, call>>

\* _restore_backup_file: decrypt_secrets raises, or restore_backup of the
\* target's service is called with restore_input_path
RsRestore(p) ==
    /\ proc[p].pc = "rs_restore"
    /\ \E e \in SecretsOutcomes :
         IF e = ""
         THEN Seti(p, [proc[p] EXCEPT !.pc = "lk_check", !.svc = "restore",
                           !.drive = FALSE, !.encrypted = FALSE, !.checks = {}])
         ELSE Raise(p, e)
    /\ UNCHANGED <<now, ticks, nops, lockFile, schedules, runs, audit, db, tmpdir, store, runner, call>>

\* the finally block of restore_now: temp_path is unlinked when it has been
\* assigned; what is left of the invocation's temporary files
RestoreFinally(r) == r.tmp \ (IF r.temp_path THEN {"downloaded"} ELSE {})

RsFinish(p) ==
    /\ proc[p].pc = "rs_finish"
    /\ audit' = SetAudit(audit, proc[p].aud, "success")
    /\ tmpdir' = tmpdir \cup RestoreFinally(proc[p])
    /\ Seti(p, IdleProc)
    /\ UNCHANGED <<now, ticks, nops, lockFile, schedules, runs, db, store, runner, call>>

RsHandler(p) ==
    /\ proc[p].pc = "rs_handler"
    /\ audit' = SetAudit(audit, proc[p].aud, "failed")
    /\ tmpdir' = tmpdir \cup RestoreFinally(proc[p])
    /\ Seti(p, IdleProc)
    /\ UNCHANGED <<now, ticks, nops, lockFile, schedules, runs, db, store, runner, call>>

\* ------------------------------------------------------------------ runner
\* --drain-max-batches when RUNNER_DRAIN_MAX_BATCHES is not set
DRAIN_MAX_BATCHES == 20

\* the deployments of the runner (--max-schedules, --drain, --drain-max-batches)
RunnerConfigs ==
    { [max_schedules |-> RUNNER_MAX_SCHEDULES, drain_mode |-> FALSE,
       drain_max_batches |-> DRAIN_MAX_BATCHES],
      [max_schedules |-> 1, drain_mode |-> FALSE, drain_max_batches |-> DRAIN_MAX_BATCHES],
      [max_schedules |-> 1, drain_mode |-> TRUE, drain_max_batches |-> 2],
      [max_schedules |-> 1, drain_mode |-> TRUE, drain_max_batches |-> 1],
      [max_schedules |-> 1, drain_mode |-> TRUE, drain_max_batches |-> 0] }

\* main: the arguments are parsed and main_loop is entered
RunnerMain ==
    /\ runner.pc = "off"
    /\ \E c \in RunnerConfigs :
         runner' = [runner EXCEPT !.pc = "sleep", !.max_schedules = c.max_schedules,
                                  !.drain_mode = c.drain_mode,
                                  !.drain_max_batches = c.drain_max_batches]
    /\ UNCHANGED <<now, ticks, nops, lockFile, schedules, runs, audit, db, proc, tmpdir, store, call>>

\* main_loop calls run_cycle (after asyncio.sleep, except the first time)
RunCycle ==
    /\ runner.pc = "sleep"
    /\ runner' = [runner EXCEPT !.pc = "loop", !.batches = 0, !.issued = 0,
                                 !.executed = 0, !.t0 = now, !.run0 = Len(runs),
                                 !.due0 = {i \in DOMAIN schedules : IsDue(i)}]
    /\ UNCHANGED <<now, ticks, nops, lockFile, schedules, runs, audit, db, proc, tmpdir, store, call>>

\* run_cycle returns: its local variables are gone
EndCycle(r) == [RunnerOff EXCEPT !.pc = "sleep", !.max_schedules = r.max_schedules,
                                 !.drain_mode = r.drain_mode,
                                 !.drain_max_batches = r.drain_max_batches]

\* max(1, drain_max_batches)
BatchLimit_plusOne(drain_max_batches) == drain_max_batches + 1

BatchLimit(drain_max_batches) == IF drain_max_batches > 1 THEN drain_max_batches ELSE 1

\* run_cycle: batches += 1 and the safety limit stops the loop
RunnerBreak ==
    /\ runner.pc = "loop"
    /\ runner.batches + 1 > BatchLimit(runner.drain_max_batches)
    /\ runner' = EndCycle(runner)
    /\ UNCHANGED <<now, ticks, nops, lockFile, schedules, runs, audit, db, proc, tmpdir, store, call>>

\* run_cycle: batches += 1 and run_due_via_api posts the next batch
RunnerBatch(p) ==
    /\ runner.pc = "loop"
    /\ runner.batches + 1 <= BatchLimit(runner.drain_max_batches)
    /\ run_due(p, runner.max_schedules, TRUE)
    /\ runner' = [runner EXCEPT !.pc = "await", !.batches = @ + 1, !.issued = @ + 1]

\* run_cycle: the response arrives, extract_run_due_summary reads its count,
\* and the loop goes on only in drain mode after a full batch
RunnerReceive(p) ==
    /\ runner.pc = "await"
    /\ proc[p].pc = "respond"
    /\ runner' = IF ~runner.drain_mode THEN EndCycle(runner)
                 ELSE IF proc[p].count < runner.max_schedules THEN EndCycle(runner)
                 ELSE [runner EXCEPT !.executed = proc[p].count, !.pc = "loop"]
    /\ Seti(p, IdleProc)
    /\ UNCHANGED <<now, ticks, nops, lockFile, schedules, runs, audit, db, tmpdir, store, call>>

\* ---------------------------------------------------- schedule management
\* POST /automation/schedules with enabled = false
CreateScheduleDisabled ==
    /\ Len(schedules) < MaxSchedules
    /\ \E c \in ScheduleConfigs :
         schedules' = Append(schedules,
             [target |-> c.target, enabled |-> FALSE,
              interval_seconds |-> c.interval_seconds,
              retention |-> [run_at_time |-> c.run_at_time, keep_last |-> c.keep_last],
              ndest |-> c.ndest, next_run_at |-> NULL])
    /\ UNCHANGED <<now, ticks, nops, lockFile, runs, audit, db, proc, tmpdir, store, runner, call>>

\* POST /automation/schedules with destination_ids = [] (the default of the
\* request): the loop over the ids of ScheduleService.create_schedule has
\* nothing to look up and the schedule is stored without destinations
CreateScheduleNoDestinations ==
    /\ Len(schedules) < MaxSchedules
    /\ \E c \in ScheduleConfigs :
         schedules' = Append(schedules,
             [target |-> c.target, enabled |-> TRUE,
              interval_seconds |-> c.interval_seconds,
              retention |-> [run_at_time |-> c.run_at_time, keep_last |-> c.keep_last],
              ndest |-> 0, next_run_at |-> now])
    /\ UNCHANGED <<now, ticks, nops, lockFile, runs, audit, db, proc, tmpdir, store, runner, call>>

\* the values of interval_seconds an update is exercised with
UpdateIntervals == {DAY_SECONDS, 60}

\* PUT /automation/schedules/{id}: AutomationRepository.update_schedule with
\* enabled and interval_seconds in the payload (has_enabled FALSE and
\* interval_seconds NULL: the field is absent)
UpdateSchedule ==
    \E i \in DOMAIN schedules, has_enabled \in BOOLEAN, enabled \in BOOLEAN,
       interval_seconds \in UpdateIntervals \cup {NULL} :
        /\ has_enabled \/ interval_seconds # NULL
        /\ schedules' =
              [schedules EXCEPT
                 ![i].interval_seconds = IF interval_seconds # NULL THEN interval_seconds ELSE @,
                 ![i].enabled = IF has_enabled THEN enabled ELSE @,
                 ![i].next_run_at = IF has_enabled /\ enabled /\ @ = NULL THEN now ELSE @]
        /\ UNCHANGED <<now, ticks, nops, lockFile, runs, audit, db, proc, tmpdir, store, runner, call>>

\* ------------------------------------------------------- helper functions
\* a helper function returns
Return(result) == call' = [call EXCEPT !.done = TRUE, !.result = result]

\* the reference instants, intervals and run_at_time values the timing
\* helpers are called with: around the daily anchors of day 0 and day 1
References == {0, 12599, 12600, 12601, 86399, 86400, 99000, 172799}
Intervals == {DAY_SECONDS, HOUR_SECONDS, 60, 0}
RunAtTimes == {NoTime, <<3, 30>>, <<0, 0>>, <<23, 59>>, <<24, 0>>}

TimingCalls ==
    [fn : {"compute_next_run_at"}, done : {FALSE}, result : {NULL},
     reference : References, interval_seconds : Intervals,
     retention : [run_at_time : RunAtTimes, keep_last : {DEFAULT_KEEP_LAST}]]

InitTiming ==
    /\ Quiescent
    /\ call \in TimingCalls

ComputeNextRunAt ==
    /\ call.fn = "compute_next_run_at"
    /\ ~call.done
    /\ Return(compute_next_run_at(call.reference, call.interval_seconds, call.retention))
    /\ UNCHANGED <<now, ticks, nops, lockFile, schedules, runs, audit, db, proc, tmpdir, store, runner>>

\* the artifacts the listings are made of: two of Wednesday 2026-01-14 12:00
\* with the same created_at, one of 08:00 that day, one of Monday 2026-01-12
\* and one of 2025-12-31; sizes in bytes
BackupPool ==
    { BackupObject(1, 16 * 24 + 12, 1), BackupObject(2, 16 * 24 + 12, 3),
      BackupObject(3, 16 * 24 + 8, 3), BackupObject(4, 14 * 24 + 12, 1),
      BackupObject(5, 2 * 24 + 12, 2) }

\* the planner runs on Wednesday 2026-01-14 at 13:00
PlanTime == 16 * 24 + 13

\* the listings: every order of up to MaxBackups artifacts of the pool
RECURSIVE Listings(_)
Listings(n) ==
    IF n = 0 THEN {<<>>}
    ELSE LET shorter == Listings(n - 1)
         IN shorter \cup {Append(l, b) : l \in {m \in shorter : Len(m) = n - 1},
                                       b \in BackupPool}

BackupLists ==
    {l \in Listings(MaxBackups) : \A i, j \in DOMAIN l : i # j => l[i] # l[j]}

\* min_backups and max_backups
BoundsPairs == {<<NULL, NULL>>, <<2, NULL>>, <<NULL, 1>>, <<2, 1>>}

\* daily, weekly, monthly, yearly
TierLimits == {<<NULL, NULL, NULL, NULL>>, <<1, 1, NULL, NULL>>, <<2, NULL, NULL, NULL>>,
               <<NULL, NULL, 2, 2>>, <<7, 4, 12, NULL>>}

\* the policies the planner is called with
RetentionPolicies ==
    LET Bounded(S) == {[r EXCEPT !.min_backups = b[1], !.max_backups = b[2]] :
                          r \in S, b \in BoundsPairs}
    IN Bounded(
         {[RetentionConfig EXCEPT !.mode = "last_n", !.keep_last = k] :
              k \in {-1, 0, 1, 2, DEFAULT_KEEP_LAST}}
         \cup {[RetentionConfig EXCEPT !.mode = "max_age_days", !.keep_last = k,
                                       !.max_age_days = a] :
                  k \in {0, 1}, a \in {NULL, 0, 1, 3}}
         \cup {[RetentionConfig EXCEPT !.mode = "max_size", !.keep_last = k,
                                       !.max_size_bytes = m] :
                  k \in {0, 1, 2}, m \in {NULL, 0, 2, 4}}
         \cup {[RetentionConfig EXCEPT !.mode = "smart", !.keep_last = k, !.profile = f,
                                       !.daily = t[1], !.weekly = t[2],
                                       !.monthly = t[3], !.yearly = t[4]] :
                  k \in {0, 1}, f \in {"", "low"}, t \in TierLimits})

RetentionCalls ==
    [fn : {"plan_retention"}, done : {FALSE}, result : {NULL},
     backups : BackupLists, retention : RetentionPolicies, now : {PlanTime}]

InitRetention ==
    /\ Quiescent
    /\ call \in RetentionCalls

PlanRetention ==
    /\ call.fn = "plan_retention"
    /\ ~call.done
    /\ Return(plan_retention_by_mode(call.backups, call.retention, call.now))
    /\ UNCHANGED <<now, ticks, nops, lockFile, schedules, runs, audit, db, proc, tmpdir, store, runner>>


\* the destinations download and delete requests are made for
Destinations ==
    [destination_type : {"local", "sftp"}, path : BasePaths]
        \cup [destination_type : {"google_drive"}, path : {<<>>}]

BackupIdCalls ==
    [fn : {"download", "delete"}, done : {FALSE}, result : {NULL},
     destination : Destinations, backup_id : Strings(MaxIdLen)]

InitBackupId ==
    /\ Quiescent
    /\ call \in BackupIdCalls

\* what a request ends with: the ValueError of the validator or of the Drive
\* provider, or the provider operation on its target
Outcome(destination, backup_id) ==
    IF \/ ~validate_destination_backup_id(destination, backup_id)
       \/ ProviderRefuses(destination, backup_id)
    THEN [accepted |-> FALSE, target |-> <<>>]
    ELSE [accepted |-> TRUE, target |-> ProviderTarget(destination, backup_id)]

\* BackupService.download_backup_from_destination
DownloadBackupFromDestination ==
    /\ call.fn = "download"
    /\ ~call.done
    /\ Return(Outcome(call.destination, call.backup_id))
    /\ UNCHANGED <<now, ticks, nops, lockFile, schedules, runs, audit, db, proc, tmpdir, store, runner>>

\* the status the delete_backup audit event of a manual delete is left with:
\* the validator raises in front of the try block, an exception of the
\* provider is handled by the except branch
DeleteAuditStatus(destination, backup_id) ==
    IF ~validate_destination_backup_id(destination, backup_id) THEN "started"
    ELSE IF ProviderRefuses(destination, backup_id) THEN "failed"
    ELSE "success"

\* BackupService.delete_backup_from_destination: the audit event is added in
\* status started before the backup_id is validated
DeleteBackupFromDestination ==
    /\ call.fn = "delete"
    /\ ~call.done
    /\ audit' = Append(audit,
           [NewAudit("delete_backup", "manual", 0) EXCEPT
                !.status = DeleteAuditStatus(call.destination, call.backup_id)])
    /\ Return(Outcome(call.destination, call.backup_id))
    /\ UNCHANGED <<now, ticks, nops, lockFile, schedules, runs, db, proc, tmpdir, store, runner>>

\* ------------------------------------------------- the path of an upload
\* a target name is a string over letters of both cases, the underscore, the
\* hyphen and a character that is neither (a blank)
NameChars == {"B", "b", "_", " ", "-"}

MaxNameLen == 3

TargetNames == UNION {[1..k -> NameChars] : k \in 1..MaxNameLen}

\* re.sub(r"[^\w\-]", "_", name)
ReplaceSpecial(name) ==
    [i \in 1..Len(name) |-> IF name[i] \in {"B", "b", "_", "-"} THEN name[i] ELSE "_"]

\* re.sub(r"_+", "_", s)
RECURSIVE CollapseUnderscores(_)
CollapseUnderscores(s) ==
    IF Len(s) < 2 THEN s
    ELSE IF s[1] = "_" /\ s[2] = "_" THEN CollapseUnderscores(Tail(s))
    ELSE <<s[1]>> \o CollapseUnderscores(Tail(s))

\* str.strip("_")
RECURSIVE StripUnderscores(_)
StripUnderscores(s) ==
    IF s # <<>> /\ s[1] = "_" THEN StripUnderscores(Tail(s))
    ELSE IF s # <<>> /\ s[Len(s)] = "_" THEN StripUnderscores(SubSeq(s, 1, Len(s) - 1))
    ELSE s

\* str.lower
lower(s) == [i \in 1..Len(s) |-> IF s[i] = "B" THEN "b" ELSE s[i]]

\* ScheduleExecutor._sanitize_name and BackupService._sanitize_name
sanitize_name(name) == lower(StripUnderscores(CollapseUnderscores(ReplaceSpecial(name))))

\* the name of the artifact: "sched-<id>-<filename>" of a scheduled run,
\* "manual-<subfolder>-<filename>" of a manual one; it holds no slash
BackupFilename(origin, subfolder) ==
    IF origin = "schedule" THEN <<"x">> ELSE <<"x", "-">> \o subfolder

\* dest_name = f"{subfolder}/{backup_filename}"
UploadDestName(subfolder, backup_filename) == subfolder \o <<"/">> \o backup_filename

\* where upload_backup of the provider writes: LocalStorage joins base_path
\* and dest_name as paths, SFTPStorage concatenates the strings
UploadPath(destination, dest_name) ==
    IF destination.destination_type = "local"
    THEN joinpath(destination.path, dest_name)
    ELSE rstrip(destination.path) \o <<"/">> \o dest_name

UploadDestinations == [destination_type : {"local", "sftp"}, path : BasePaths]

UploadCalls ==
    [fn : {"upload"}, done : {FALSE}, result : {NULL},
     origin : {"schedule", "manual"}, name : TargetNames,
     destination : UploadDestinations]

InitUpload ==
    /\ Quiescent
    /\ call \in UploadCalls

\* the upload step of _execute_schedule and of backup_now for one destination
UploadBackup ==
    /\ call.fn = "upload"
    /\ ~call.done
    /\ LET subfolder == sanitize_name(call.name)
           dest_name == UploadDestName(subfolder, BackupFilename(call.origin, subfolder))
       IN Return([subfolder |-> subfolder,
                  dest_name |-> dest_name,
                  target |-> resolve(UploadPath(call.destination, dest_name))])
    /\ UNCHANGED <<now, ticks, nops, lockFile, schedules, runs, audit, db, proc, tmpdir, store, runner>>

\* POST /automation/backup-now as one request served alone: the payload, the
\* call of the service and what the service has done when it returns
NoPassword == "<None>"
Passwords == {NoPassword, "", " ", "pw"}

BackupNowPayloads ==
    [target_id : Targets \cup {"missing"}, ndest : {0, 1, 2},
     use_local_storage : BOOLEAN, encryption_password : Passwords]

\* the route's call service.backup_now(target_id=..., destination_ids=...,
\* use_local_storage=...): the keyword arguments the service receives
route_backup_now(payload) ==
    [target_id |-> payload.target_id, ndest |-> payload.ndest,
     use_local_storage |-> payload.use_local_storage,
     encryption_password |-> NoPassword]

\* str(encryption_password or "").strip()
StripPassword(encryption_password) ==
    IF encryption_password \in {NoPassword, "", " "} THEN "" ELSE encryption_password

\* the ValueError raised before anything is recorded checking the target only
Rejection_targetOnly(kwargs) ==
    IF kwargs.target_id \notin Targets THEN "Target not found" ELSE ""

\* the ValueError raised before anything is recorded ("" when none is)
Rejection(kwargs) ==
    IF kwargs.target_id \notin Targets THEN "Target not found"
    ELSE IF ~kwargs.use_local_storage /\ kwargs.ndest = 0 THEN "No destinations provided"
    ELSE ""

\* the providers the artifact is uploaded to: local storage, or the destinations
UploadCount(kwargs) == IF kwargs.use_local_storage THEN 1 ELSE kwargs.ndest

\* what can go wrong in the pipeline
PipelineOutcomes(password) ==
    {"", "secrets_failed", "dump_failed", "upload_failed"}
        \cup (IF password # "" THEN {"encrypt_failed"} ELSE {})

\* the uploads made: all of them, or those in front of the one that failed
UploadsMade(kwargs, e) ==
    IF e = "" THEN {UploadCount(kwargs)}
    ELSE IF e = "upload_failed" THEN 0..(UploadCount(kwargs) - 1)
    ELSE {0}

BackupNowCalls ==
    [fn : {"backup_now"}, done : {FALSE}, result : {NULL}, payload : BackupNowPayloads]

InitBackupNow ==
    /\ Quiescent
    /\ call \in BackupNowCalls

\* the route and BackupExecutionService.backup_now from the request to the
\* response; uploads are the names uploaded (destination, and whether the
\* name ends in .enc), encrypted is details.encrypted of the Run
BackupNowRequest ==
    /\ call.fn = "backup_now"
    /\ ~call.done
    /\ LET kwargs == route_backup_now(call.payload)
           password == StripPassword(kwargs.encryption_password)
           error == Rejection(kwargs)
       IN IF error # ""
          THEN /\ Return([status |-> "rejected", error |-> error, uploads |-> <<>>,
                          encrypted |-> FALSE])
               /\ UNCHANGED <<runs, audit, store, tmpdir>>
          ELSE \E e \in PipelineOutcomes(password) : \E n \in UploadsMade(kwargs, e) :
                 LET status == IF e = "" THEN "success" ELSE "failed"
                     name == Artifact(kwargs.target_id, "manual", 0, Len(runs) + 1)
                 IN /\ runs' = EndRun(SetRun(Append(runs, NewRun(0, "manual")),
                                             Len(runs) + 1, status), Len(runs) + 1, e # "")
                    /\ audit' = Append(audit,
                           [NewAudit("backup", "manual", Len(runs) + 1) EXCEPT !.status = status])
                    /\ store' = [d \in Dests |-> IF d <= n THEN Append(store[d], name)
                                                 ELSE store[d]]
                    /\ tmpdir' = IF e = "dump_failed"
                                 THEN tmpdir \cup DumpFiles(FamilyOf(kwargs.target_id), e, {})
                                 ELSE tmpdir
                    /\ Return([status |-> status, error |-> e,
                               uploads |-> [d \in 1..n |-> [dest |-> d, enc |-> password # ""]],
                               encrypted |-> (e = "" /\ password # "")])
    /\ UNCHANGED <<now, ticks, nops, lockFile, schedules, db, proc, runner>>

\* the requests the restore-lock middleware sees: method, path (its
\* segments) and the DB_TYPE the application is configured with
Methods == {"GET", "POST", "PUT", "PATCH", "DELETE"}

Paths == {<<"backup", "sql", "restore">>, <<"backup">>, <<"health">>, <<"version">>,
          <<"automation", "restore-now">>, <<"examples">>}

DbTypes == {"neo4j", "postgresql", "postgres", "mysql", "sqlite", "other"}

\* request.url.path.startswith("/backup/")
StartsWithBackup(path) == Len(path) >= 2 /\ path[1] = "backup"

\* the backup service the middleware asks for the lock: "" when DB_TYPE is
\* neither neo4j nor one of the SQL types
ServiceFamily(db_type) ==
    IF db_type = "neo4j" THEN "neo4j"
    ELSE IF db_type \in {"postgresql", "postgres", "mysql", "sqlite"} THEN "sql"
    ELSE ""

\* the request reaches check_operation_lock
ChecksLock(method, path, db_type) ==
    /\ ~StartsWithBackup(path)
    /\ path \notin {<<"health">>, <<"version">>}
    /\ method \in {"POST", "PUT", "PATCH", "DELETE"}
    /\ ServiceFamily(db_type) # ""

\* block_writes_during_restore answering every request that reaches the lock
\* check while a lock of any operation is there
block_writes_during_restore_anyLock(method, path, db_type, rec, t) ==
    IF /\ ChecksLock(method, path, db_type)
       /\ rec.exists
       /\ ~IsStale(rec, t)
    THEN "503" ELSE "call_next"

\* block_writes_during_restore: the JSONResponse with status 503, or
\* call_next(request); rec is the lock record of the service's family
block_writes_during_restore(method, path, db_type, rec, t) ==
    IF /\ ChecksLock(method, path, db_type)
       /\ rec.exists
       /\ ~IsStale(rec, t)
       /\ rec.operation = "restore"
    THEN "503" ELSE "call_next"

\* the records _acquire_lock writes
LockRecords ==
    {NoRecord} \cup {[exists |-> TRUE, operation |-> op, timestamp |-> 0, owner |-> 0] :
                         op \in {"backup", "restore"}}

RequestCalls ==
    [fn : {"request"}, done : {FALSE}, result : {""}, seen : {NoRecord}, at : {0},
     method : Methods, path : Paths, db_type : DbTypes]

InitMiddleware ==
    /\ now = 0
    /\ ticks = 0
    /\ nops = 0
    /\ lockFile \in [Families -> LockRecords]
    /\ schedules = <<>>
    /\ runs = <<>>
    /\ audit = <<>>
    /\ db = [t \in Targets |-> "intact"]
    /\ proc = [p \in Procs |-> IdleProc]
    /\ tmpdir = {}
    /\ store = [d \in Dests |-> InitialArtifacts]
    /\ runner = RunnerOff
    /\ call \in RequestCalls

\* a request passing the middleware; seen and at are history (the lock record
\* of the service's family when the request arrived, and the time).
\* check_operation_lock unlinks the record it finds stale.
Middleware ==
    /\ call.fn = "request"
    /\ ~call.done
    /\ LET fam == ServiceFamily(call.db_type)
           rec == IF fam = "" THEN NoRecord ELSE lockFile[fam]
       IN /\ call' = [call EXCEPT !.done = TRUE, !.seen = rec, !.at = now,
                          !.result = block_writes_during_restore(call.method, call.path,
                                                                 call.db_type, rec, now)]
          /\ lockFile' = IF /\ ChecksLock(call.method, call.path, call.db_type)
                            /\ rec.exists
                            /\ IsStale(rec, now)
                         THEN [lockFile EXCEPT ![fam] = NoRecord]
                         ELSE lockFile
    /\ UNCHANGED <<now, ticks, nops, schedules, runs, audit, db, proc, tmpdir, store, runner>>

\* ------------------------------------------------------------ specification
\* the steps of a service call that no other call overlaps: _acquire_lock
\* finds no record where check_operation_lock has just found none or removed
\* a stale one, and goes straight to its write
ServiceStepAlone(p) ==
    \/ LkCheck(p)
    \/ LkUnlink(p)
    \/ AcqExists(p)
    \/ AcqWrite(p)
    \/ NeoMktemp(p)
    \/ Dump(p)
    \/ Release(p)

\* the steps of the two backup services, shared by every pipeline
ServiceStep(p) ==
    \/ ServiceStepAlone(p)
    \/ AcqRead(p)

BackupStep(p) ==
    \/ Encrypt(p)
    \/ Upload(p)

\* the schedule executor serving run-due, run-now and run-enabled-now
Next ==
    \/ Tick
    \/ CreateSchedule
    \/ \E p \in Procs : RunDue(p)
    \/ \E p \in Procs : RunEnabledNow(p)
    \/ \E p \in Procs : RunNow(p)
    \/ \E p \in Procs : ExBegin(p)
    \/ \E p \in Procs : ServiceStep(p)
    \/ \E p \in Procs : BackupStep(p)
    \/ \E p \in Procs : Retention(p)
    \/ \E p \in Procs : FinishExec(p)
    \/ \E p \in Procs : HandlerExec(p)

Spec == Init /\ [][Next]_vars

\* backup-now and restore-now requests
NextManual ==
    \/ Tick
    \/ \E p \in Procs : BackupNow(p)
    \/ \E p \in Procs : RestoreNow(p)
    \/ \E p \in Procs : ServiceStep(p)
    \/ \E p \in Procs : BackupStep(p)
    \/ \E p \in Procs : FinishNow(p)
    \/ \E p \in Procs : HandlerNow(p)
    \/ \E p \in Procs : RsPrepare(p)
    \/ \E p \in Procs : RsRestore(p)
    \/ \E p \in Procs : Drop(p)
    \/ \E p \in Procs : Apply(p)
    \/ \E p \in Procs : RsFinish(p)
    \/ \E p \in Procs : RsHandler(p)

SpecManual == Init /\ [][NextManual]_vars

\* the runner as the only client of the API: one run-due request at a time
NextRunner ==
    \/ Tick
    \/ CreateSchedule
    \/ RunnerMain
    \/ RunCycle
    \/ RunnerBreak
    \/ \E p \in Procs : RunnerBatch(p)
    \/ \E p \in Procs : RunnerReceive(p)
    \/ \E p \in Procs : ExBegin(p)
    \/ \E p \in Procs : ServiceStepAlone(p)
    \/ \E p \in Procs : BackupStep(p)
    \/ \E p \in Procs : Retention(p)
    \/ \E p \in Procs : FinishExec(p)
    \/ \E p \in Procs : HandlerExec(p)

SpecRunner == Init /\ [][NextRunner]_vars

\* the runner with schedules of any destination list
NextNoDestinations ==
    \/ Tick
    \/ CreateSchedule
    \/ CreateScheduleNoDestinations
    \/ RunnerMain
    \/ RunCycle
    \/ RunnerBreak
    \/ \E p \in Procs : RunnerBatch(p)
    \/ \E p \in Procs : RunnerReceive(p)
    \/ \E p \in Procs : ExBegin(p)
    \/ \E p \in Procs : ServiceStepAlone(p)
    \/ \E p \in Procs : BackupStep(p)
    \/ \E p \in Procs : Retention(p)
    \/ \E p \in Procs : FinishExec(p)
    \/ \E p \in Procs : HandlerExec(p)

SpecNoDestinations == Init /\ [][NextNoDestinations]_vars

\* the schedule table under create and update requests
NextSchedules ==
    \/ Tick
    \/ CreateSchedule
    \/ CreateScheduleDisabled
    \/ UpdateSchedule

SpecSchedules == Init /\ [][NextSchedules]_vars

\* calls of compute_next_run_at
NextTiming == ComputeNextRunAt

SpecTiming == InitTiming /\ [][NextTiming]_vars

\* calls of plan_retention
NextRetention == PlanRetention

SpecRetention == InitRetention /\ [][NextRetention]_vars

\* download and delete requests for a stored backup
NextBackupId == DownloadBackupFromDestination \/ DeleteBackupFromDestination

SpecBackupId == InitBackupId /\ [][NextBackupId]_vars

NextUpload == UploadBackup

SpecUpload == InitUpload /\ [][NextUpload]_vars

\* backup-now requests, one at a time
NextBackupNow == BackupNowRequest

SpecBackupNow == InitBackupNow /\ [][NextBackupNow]_vars

\* requests passing the restore-lock middleware
NextMiddleware == Tick \/ Middleware

SpecMiddleware == InitMiddleware /\ [][NextMiddleware]_vars

\* ------------------------------------------------------------- properties
BackupOps == {"run_due", "run_now", "run_enabled_now", "backup_now"}

\* a backup execution between artifact production and bookkeeping
BackupExecuting(p) ==
    /\ proc[p].op \in BackupOps
    /\ proc[p].pc \in {"neo_mktemp", "dump", "release", "encrypt", "upload",
                       "retention", "finish"}

\* a restore that has taken the lock and is dropping / re-populating the target
RestoreRunning(p) ==
    /\ proc[p].op = "restore_now"
    /\ proc[p].pc \in {"drop", "apply", "release"}

\* C1: for one database family a restore and a backup execution (artifact
\* production through upload, retention sweep and bookkeeping) are never in
\* progress at the same time
C1_BackupExcludesRestore ==
    \A p, q \in Procs :
        (p # q /\ Fam(p) = Fam(q)) => ~(BackupExecuting(p) /\ RestoreRunning(q))

Distance(a, b) == IF a < b THEN b - a ELSE a - b

\* C2: of two operations that acquire the lock of one family concurrently
\* (closer together than the lock timeout, so neither found the other's
\* record stale) at most one succeeds
C2_AcquisitionAtomic ==
    \A p, q \in Procs :
        (p # q /\ Fam(p) = Fam(q) /\ proc[p].holds /\ proc[q].holds)
            => Distance(proc[p].acq, proc[q].acq) >= LOCK_TIMEOUT

StartedRuns(sid) ==
    {r \in DOMAIN runs : runs[r].schedule_id = sid /\ runs[r].status = "started"}

\* C3: for every schedule at most one Run of that schedule has status started
C3_OneStartedRunPerSchedule ==
    \A sid \in DOMAIN schedules : Cardinality(StartedRuns(sid)) <= 1

BackupAuditOf(r) ==
    {a \in DOMAIN audit : audit[a].run = r /\ audit[a].operation = "backup"}

\* C4: when an invocation whose pipeline raised ends, its Run is failed with an
\* error_message and its backup audit event is failed; no invocation ends with
\* its Run still started
C4_FailureFinalizesRun ==
    \A r \in DOMAIN runs :
        runs[r].ended =>
            /\ runs[r].status # "started"
            /\ runs[r].raised =>
                 /\ runs[r].status = "failed"
                 /\ runs[r].error_message
                 /\ \A a \in BackupAuditOf(r) : audit[a].status = "failed"

\* C5: the status of a Run changes exactly once, from started to success or
\* failed, and never again
C5_RunStatusChangesOnce ==
    \A r \in DOMAIN runs :
        /\ runs[r].changes <= 1
        /\ runs[r].changes = 1 => runs[r].status \in {"success", "failed"}
        /\ runs[r].changes = 0 => runs[r].status = "started"
        /\ runs[r].ended => runs[r].changes = 1

\* the runs whose invocation ends in this step
Ending(r) == r \in DOMAIN runs /\ ~runs[r].ended /\ runs'[r].ended

\* C6: when an execution with trigger scheduled ends, as success or failure,
\* the schedule's next_run_at is the next-fire time of the finish time and is
\* strictly later than it
C6_ScheduledRunAdvancesNextRun ==
    [][\A r \in DOMAIN runs :
          (Ending(r) /\ runs[r].type = "scheduled") =>
              LET sid == runs[r].schedule_id IN
              /\ schedules'[sid].next_run_at =
                     compute_next_run_at(now, schedules[sid].interval_seconds,
                                         schedules[sid].retention)
              /\ schedules'[sid].next_run_at > now]_vars

\* C7: no step of an execution started by run-now or run-enabled-now changes
\* next_run_at of any schedule, on the success and on the failure path
C7_ManualRunKeepsNextRun ==
    [][\A p \in Procs :
          (proc[p].op \in {"run_now", "run_enabled_now"} /\ proc'[p] # proc[p]) =>
              \A sid \in DOMAIN schedules :
                  schedules'[sid].next_run_at = schedules[sid].next_run_at]_vars

\* a run-now / run-enabled-now execution ended as success while the schedule
\* was due, and the schedule is still due
C7_Witness ==
    \E r \in DOMAIN runs :
        /\ runs[r].type = "manual"
        /\ runs[r].schedule_id \in DOMAIN schedules
        /\ runs[r].ended
        /\ runs[r].status = "success"
        /\ schedules[runs[r].schedule_id].next_run_at < now

CriticalSection == {"neo_mktemp", "dump", "drop", "apply", "release"}

\* C8: a lock record exists only while the operation that created it is between
\* its acquisition and its release: once that operation has returned or raised
\* its record is gone
C8_LockReleasedOnEveryExit ==
    \A f \in Families :
        lockFile[f].exists =>
            LET o == lockFile[f].owner IN
            /\ Fam(o) = f
            /\ proc[o].pc \in CriticalSection

Rejections == {"operation_in_progress", "acquire_failed"}

\* the request p reads the lock record in this step
ReadsLock(p) == proc[p].pc \in {"lk_check", "acq_read"} /\ proc'[p] # proc[p]

\* C9: a lock record blocks exactly while it is younger than 2 hours: an acquire
\* attempt that finds a record younger than 2 hours fails and leaves the record;
\* one that finds a record of 2 hours or more goes on to replace it, and its
\* write makes the record its own
C9_LockBlocksExactlyWhileYoung ==
    [][\A p \in Procs :
          LET rec == lockFile[Fam(p)] IN
          /\ (ReadsLock(p) /\ rec.exists /\ now - rec.timestamp < LOCK_TIMEOUT) =>
                 /\ proc'[p].err \in Rejections
                 /\ ~proc'[p].holds
                 /\ lockFile' = lockFile
          /\ (ReadsLock(p) /\ rec.exists /\ now - rec.timestamp >= LOCK_TIMEOUT) =>
                 /\ proc'[p].err = ""
                 /\ proc'[p].pc \in {"lk_unlink", "acq_write"}
          /\ (proc[p].pc = "acq_write" /\ proc'[p] # proc[p]) =>
                 /\ proc'[p].holds
                 /\ lockFile'[Fam(p)].exists
                 /\ lockFile'[Fam(p)].owner = p
                 /\ lockFile'[Fam(p)].timestamp = now]_vars

\* a record exactly 2 hours old was replaced while its writer was still running
C9_Witness ==
    \E p, q \in Procs :
        /\ p # q /\ Fam(p) = Fam(q)
        /\ proc[p].holds /\ proc[q].holds
        /\ lockFile[Fam(p)].exists /\ lockFile[Fam(p)].owner = p
        /\ proc[p].acq - proc[q].acq = LOCK_TIMEOUT

\* the restore request p has been refused by the lock
Refused(r) == r.op = "restore_now" /\ r.err \in Rejections

AdapterInvoked(r) == r.op = "restore_now" /\ r.svc = "restore"

\* the checks restore_now has to pass for the artifact of request r, the
\* filename-suffix check being required for the destinations in suffix_for
RequiredChecks(r, suffix_for) ==
    {"backup_id", "download", "compatibility"}
    \cup (IF r.encrypted THEN {"password", "decrypt"} ELSE {})
    \cup (IF r.drive \in suffix_for THEN {"suffix"} ELSE {})

PreparationErrors == {"backup_id", "download", "password", "decrypt", "suffix",
                      "compatibility"}

\* a step of the restore request p respects the order of restore_now: it calls
\* the adapter only with every required check passed, and the step that ends a
\* request one of whose checks failed finds the target untouched and leaves
\* the audit event failed
RestoreGuarded(p, suffix_for) ==
    /\ (~AdapterInvoked(proc[p]) /\ AdapterInvoked(proc'[p])) =>
            RequiredChecks(proc[p], suffix_for) \subseteq proc[p].checks
    /\ (proc[p].op = "restore_now" /\ proc[p].err \in PreparationErrors
          /\ proc'[p] # proc[p]) =>
            /\ ~AdapterInvoked(proc[p])
            /\ ~proc[p].touched
            /\ db' = db
            /\ audit'[proc[p].aud].operation = "restore"
            /\ audit'[proc[p].aud].status = "failed"

\* C11 as stated: the adapter's restore is invoked only after backup-id
\* validation, download, decryption of an encrypted artifact, the
\* filename-suffix check and compatibility validation have all succeeded; when
\* one of them fails the target database is unchanged and the restore audit
\* event ends failed
C11_RestoreOnlyAfterAllChecks ==
    [][\A p \in Procs : RestoreGuarded(p, {TRUE, FALSE})]_vars

\* C11, amended: the same with the filename-suffix check required only when
\* the destination is not a Google Drive
C11_RestoreOnlyAfterChecks ==
    [][\A p \in Procs : RestoreGuarded(p, {FALSE})]_vars

\* the decryption of an encrypted artifact has failed (wrong password) and the
\* request stands in front of its except block with its target untouched,
\* while another request has passed its checks and restored its target
C11_Witness ==
    \E p, q \in Procs :
        /\ proc[p].op = "restore_now"
        /\ proc[p].pc = "rs_handler"
        /\ proc[p].err = "decrypt"
        /\ proc[p].checks = {"backup_id", "download", "password"}
        /\ db[proc[p].tgt] = "intact"
        /\ AdapterInvoked(proc[q])
        /\ proc[q].touched
        /\ db[proc[q].tgt] = "restored"

\* C12: when a backup or restore pipeline invocation has ended, every temporary
\* file it created (dump artifact, encrypted copy, downloaded artifact,
\* decrypted copy) has been unlinked
C12_TempFilesRemoved == tmpdir = {}

\* the artifacts destination d holds
Files(d) == {store[d][i] : i \in DOMAIN store[d]}

\* the artifacts this step removes from destination d
Deleted(d) == Files(d) \ {store'[d][i] : i \in DOMAIN store'[d]}

\* the artifacts of schedule sid
OfSchedule(F, sid) == {a \in F : a.kind = "sched" /\ a.owner = sid}

\* C13: on each destination the retention deletions of a run happen only after
\* that run's upload to the destination, the artifact the run uploaded is never
\* among the deleted ones, and a destination that holds an artifact of a
\* schedule holds one after every step
C13_SweepKeepsNewArtifact ==
    [][/\ \A p \in Procs : \A d \in Dests :
             (proc'[p] # proc[p] /\ Deleted(d) # {}) =>
                 /\ d = proc[p].di
                 /\ DestName(proc[p]) \in Files(d)
                 /\ DestName(proc[p]) \notin Deleted(d)
       /\ \A d \in Dests : \A sid \in DOMAIN schedules :
             OfSchedule(Files(d), sid) # {} =>
                 OfSchedule(Files(d), sid) \ Deleted(d) # {}]_vars

\* C14: a run whose artifact was uploaded to every destination and whose
\* retention sweep failed while deleting still ends as success
C14_DeleteFailureKeepsSuccess ==
    [][\A p \in Procs :
          (proc[p].pc = "handler" /\ proc[p].err = "delete_failed"
             /\ proc[p].di = proc[p].nd /\ proc'[p] # proc[p]) =>
                 runs'[proc[p].run].status = "success"]_vars

\* C15: whatever a step deletes from a destination is deleted by the retention
\* sweep of a schedule S and has a name that starts with
\* "<sanitized target name>/sched-<S.id>-"; it is neither a manual-backup
\* artifact nor an artifact of another schedule
C15_SweepStaysInOwnPrefix ==
    [][\A d \in Dests : \A a \in Deleted(d) :
          \E p \in Procs :
              /\ proc[p].pc = "retention" /\ proc'[p] # proc[p]
              /\ StartsWith(a, retention_prefix(schedules[proc[p].sid].target, proc[p].sid))
              /\ a.kind # "manual"
              /\ a.owner = proc[p].sid]_vars

\* a sweep has deleted the artifact of an earlier successful run of a schedule
\* from the local directory, which still holds the newer artifact of that
\* schedule, the manual backup and the other schedule's artifact
C15_Witness ==
    \E r1, r2 \in DOMAIN runs :
        LET sid == runs[r1].schedule_id IN
        /\ r1 < r2
        /\ sid \in DOMAIN schedules
        /\ runs[r2].schedule_id = sid
        /\ runs[r1].status = "success"
        /\ Artifact(schedules[sid].target, "sched", sid, r1) \notin Files(1)
        /\ Artifact(schedules[sid].target, "sched", sid, r2) \in Files(1)
        /\ \A i \in DOMAIN InitialArtifacts : InitialArtifacts[i] \in Files(1)

\* C16: no step of an invocation with trigger manual (run-now,
\* run-enabled-now, backup-now) deletes a stored artifact
C16_ManualRunSkipsSweep ==
    [][\A p \in Procs :
          (proc[p].trigger = "manual" /\ proc'[p] # proc[p]) =>
              \A d \in Dests : Deleted(d) = {}]_vars

\* the Runs with trigger scheduled that schedule sid got after Run number n
RunsSince(sid, n) ==
    {i \in DOMAIN runs : i > n /\ runs[i].schedule_id = sid /\ runs[i].type = "scheduled"}

\* the runner is inside run_cycle
InTick == runner.pc \in {"loop", "await"}

\* the step on which run_cycle returns
TickEnds == InTick /\ runner'.pc = "sleep"

\* C17: when a tick of the runner in drain mode ends and the schedules due at
\* its start were no more than max_schedules times drain_max_batches, every
\* one of them has been executed in the tick and its next_run_at is later
\* than the start of the tick, so the following tick does not find it due
C17_DrainTickExecutesAllDue ==
    [][(/\ TickEnds
        /\ runner.drain_mode
        /\ Cardinality(runner.due0) <= runner.max_schedules * runner.drain_max_batches)
       => \A sid \in runner.due0 :
              /\ RunsSince(sid, runner.run0) # {}
              /\ schedules'[sid].next_run_at # NULL
              /\ schedules'[sid].next_run_at > runner.t0]_vars

\* C18: inside a tick of the runner, all batches of the tick included, no
\* schedule has been executed more than once and no destination has received
\* more than one artifact of a schedule
C18_OncePerTick ==
    InTick =>
        \A sid \in DOMAIN schedules :
            /\ Cardinality(RunsSince(sid, runner.run0)) <= 1
            /\ \A d \in Dests :
                   Cardinality({a \in OfSchedule(Files(d), sid) : a.run > runner.run0}) <= 1

\* the batches the runner has issued in its tick do not exceed cap in drain
\* mode and one otherwise
IssuedWithin(r, cap) == r.issued <= (IF r.drain_mode THEN cap ELSE 1)

\* a batch that is not the first of its tick is issued only in drain mode and
\* after a batch whose response counted exactly max_schedules executions
RepeatsOnlyAfterFullBatch ==
    (InTick /\ runner.issued >= 1 /\ runner'.issued = runner.issued + 1) =>
        /\ runner.drain_mode
        /\ runner.executed = runner.max_schedules

\* a tick without drain mode ends after exactly one batch, and every tick
\* issues at least one
OneBatchWithoutDrain ==
    TickEnds => /\ runner.issued >= 1
                /\ ~runner.drain_mode => runner.issued = 1

\* C19 as stated: a tick in drain mode issues at most drain_max_batches
\* batches, a further batch only after a full one, and a tick without drain
\* mode exactly one batch
C19_TickIssuesAtMostCap ==
    [][/\ IssuedWithin(runner', runner'.drain_max_batches)
       /\ RepeatsOnlyAfterFullBatch
       /\ OneBatchWithoutDrain]_vars

\* C19: a tick in drain mode issues at most max(1, drain_max_batches) batches,
\* a further batch only after a full one, and a tick without drain mode
\* exactly one batch; the number of batches of a tick is bounded, so the loop
\* of run_cycle ends
C19_TickIssuesAtMostCapOrOne ==
    [][/\ IssuedWithin(runner', IF runner'.drain_max_batches > 1
                                 THEN runner'.drain_max_batches ELSE 1)
       /\ RepeatsOnlyAfterFullBatch
       /\ OneBatchWithoutDrain]_vars

\* the runner in drain mode with a cap of two has issued its second batch
\* after a first batch that executed max_schedules schedules
C19_Witness ==
    /\ runner.pc = "await"
    /\ runner.drain_mode
    /\ runner.drain_max_batches = 2
    /\ runner.issued = 2
    /\ runner.executed = runner.max_schedules
    /\ \E sid \in DOMAIN schedules : RunsSince(sid, runner.run0) # {}

\* the schedules a run-due request holds: the one it is about to execute and
\* those still waiting
Selected(r) == IF r.pc = "ex_begin" THEN <<r.sid>> \o r.queue ELSE r.queue

\* C20: a run-due request selects at most max_schedules schedules, all of
\* them enabled and due, in ascending next_run_at order, and every schedule
\* it executes is enabled and due (next_run_at null or not later than now)
\* when its execution begins
C20_RunDueExecutesOnlyDue ==
    [][\A p \in Procs :
          /\ (proc[p].pc = "idle" /\ proc'[p].op = "run_due") =>
                LET q == Selected(proc'[p]) IN
                /\ Len(q) <= RUNNER_MAX_SCHEDULES
                /\ \A i \in DOMAIN q : q[i] \in DOMAIN schedules /\ IsDue(q[i])
                /\ \A i, j \in DOMAIN q :
                       i < j => schedules[q[i]].next_run_at <= schedules[q[j]].next_run_at
          /\ (proc[p].op = "run_due" /\ proc[p].pc = "ex_begin" /\ proc'[p] # proc[p]
                  /\ proc[p].sid \in DOMAIN schedules) =>
                IsDue(proc[p].sid)]_vars

\* the step creates schedule i
Created(i) == i = Len(schedules) + 1 /\ Len(schedules') = i

\* C21: a created schedule gets the initial next_run_at of the next-fire
\* rules: now, or the next anchored slot when it is daily or has a
\* run_at_time and an interval of at least one hour, and none when it is
\* created disabled
C21_InitialNextRun ==
    [][\A i \in SchedIds :
          Created(i) =>
              schedules'[i].next_run_at =
                  compute_initial_next_run_at(now, schedules'[i].enabled,
                                              schedules'[i].interval_seconds,
                                              schedules'[i].retention)]_vars

\* C22: a disabled schedule has no next_run_at in any state, and the step
\* that enables a disabled schedule sets next_run_at to the initial value of
\* the next-fire rules for the time of that step
C22_DisabledHasNoNextRun ==
    [][/\ \A i \in DOMAIN schedules' :
             ~schedules'[i].enabled => schedules'[i].next_run_at = NULL
       /\ \A i \in DOMAIN schedules :
             (~schedules[i].enabled /\ schedules'[i].enabled) =>
                 schedules'[i].next_run_at =
                     compute_initial_next_run_at(now, TRUE, schedules'[i].interval_seconds,
                                                 schedules'[i].retention)]_vars

\* seconds after midnight of a valid run_at_time
TimeOfDay(hm) == hm[1] * HOUR_SECONDS + hm[2] * 60

\* a finished call of compute_next_run_at for a daily schedule with a valid
\* run_at_time
DailyCallDone ==
    /\ call.fn = "compute_next_run_at"
    /\ call.done
    /\ call.interval_seconds = DAY_SECONDS
    /\ ParseOk(get_run_at_time_from_retention(call.retention, DEFAULT_DAILY_TIME))

\* C23: for a daily schedule the next-fire time of a reference is at the
\* time of day run_at_time, strictly later than the reference and at most one
\* day later, that is the earliest such instant
C23_DailyNextFire ==
    DailyCallDone =>
        LET t == TimeOfDay(get_run_at_time_from_retention(call.retention, DEFAULT_DAILY_TIME)) IN
        /\ call.result % DAY_SECONDS = t
        /\ call.result > call.reference
        /\ call.result - DAY_SECONDS <= call.reference

\* the reference is exactly the 03:30 anchor of day 0 and the result is the
\* anchor of day 1
C23_Witness ==
    /\ DailyCallDone
    /\ call.reference = 12600
    /\ call.retention.run_at_time = <<3, 30>>
    /\ call.result = DAY_SECONDS + 12600

\* the artifacts of a list
Elems(s) == {s[i] : i \in DOMAIN s}

PlanDone == call.fn = "plan_retention" /\ call.done

\* C24: the keep and delete lists of the planner are disjoint and together
\* hold exactly the artifacts of the listing, each once; both are empty for
\* an empty listing
C24_KeepDeletePartition ==
    PlanDone =>
        /\ Elems(call.result.keep) \cap Elems(call.result.delete) = {}
        /\ Elems(call.result.keep) \cup Elems(call.result.delete) = Elems(call.backups)
        /\ Len(call.result.keep) + Len(call.result.delete) = Len(call.backups)
        /\ call.backups = <<>> => call.result.keep = <<>> /\ call.result.delete = <<>>

\* a smart policy with both bounds has split a listing of three artifacts
\* after demoting and promoting
C24_Witness ==
    /\ PlanDone
    /\ call.retention.mode = "smart"
    /\ call.retention.min_backups = 2 /\ call.retention.max_backups = 1
    /\ Len(call.backups) = 3
    /\ Len(call.result.keep) = 2
    /\ Len(call.result.delete) = 1

\* C25: the keep set of the planner depends only on the set of artifacts and
\* the policy: every other listing order of the same artifacts gives the same
\* keep set
C25_ListingOrderIrrelevant ==
    PlanDone =>
        \A l \in BackupLists :
            Elems(l) = Elems(call.backups) =>
                Elems(plan_retention_by_mode(l, call.retention, call.now).keep)
                    = Elems(call.result.keep)

\* what the planner selected before the final clamp
Selected0 == select_by_mode(call.backups, call.retention, call.now)

\* the artifacts the clamp demoted are no newer than any artifact kept, and
\* the artifacts it promoted are no older than any artifact deleted
DemotesOldest ==
    \A a \in Elems(Selected0.keep) \ Elems(call.result.keep) :
        \A b \in Elems(call.result.keep) : a.created_at <= b.created_at

PromotesNewest ==
    \A a \in Elems(call.result.keep) \ Elems(Selected0.keep) :
        \A b \in Elems(call.result.delete) : a.created_at >= b.created_at

AtLeastMin ==
    call.retention.min_backups # NULL =>
        Len(call.result.keep) >= (IF call.retention.min_backups < Len(call.backups)
                                  THEN call.retention.min_backups ELSE Len(call.backups))

PlainCall ==
    /\ PlanDone
    /\ \A i, j \in DOMAIN call.backups :
           i # j => call.backups[i].created_at # call.backups[j].created_at
    /\ call.retention.min_backups = NULL /\ call.retention.max_backups = NULL

\* admission newest-first that stops at the first artifact that does not fit
RECURSIVE AdmittedWhileFits(_, _, _)
AdmittedWhileFits(rest, total, max_bytes) ==
    IF rest = <<>> \/ total + Head(rest).size > max_bytes THEN {}
    ELSE {Head(rest)} \cup AdmittedWhileFits(Tail(rest), total + Head(rest).size, max_bytes)

\* C27: in max_size mode keep is the newest keep_last artifacts plus the
\* artifacts admitted newest-first while the running total stays within
\* max_size_bytes, admission stopping at the first that does not fit
C27_MaxSizeStopsAtFirstMisfit ==
    (PlainCall /\ call.retention.mode = "max_size" /\ call.retention.max_size_bytes # NULL) =>
        LET newest_first == sorted_reverse(call.backups)
            keep_last == IF call.retention.keep_last > 0 THEN call.retention.keep_last ELSE 0
            first == Take(newest_first, keep_last)
        IN Elems(call.result.keep) =
               Elems(first) \cup AdmittedWhileFits(After(newest_first, keep_last),
                                                   TotalSize(first),
                                                   call.retention.max_size_bytes)

\* the newest artifact of every bucket of a tier that lies within the tier
\* limit: Key gives the bucket of an artifact, Delta how many buckets it
\* lies before the bucket of now
NewestPerBucket(S, limit, Key(_), Delta(_)) ==
    IF limit = NULL THEN {}
    ELSE {b \in S : /\ 0 <= Delta(b) /\ Delta(b) < limit
                    /\ \A c \in S : Key(c) = Key(b) => c.created_at <= b.created_at}

\* C28: in smart mode keep is exactly the newest keep_last artifacts plus the
\* newest artifact of each day, ISO week, month and year within the limit of
\* the tier; everything else is in delete
C28_SmartKeepsNewestPerBucket ==
    (PlainCall /\ call.retention.mode = "smart") =>
        LET eff == apply_profile(call.retention)
            S == Elems(call.backups)
            today == DateOf(call.now)
            Day(b) == DateOf(b.created_at)
            Week(b) == IsoYearOf(Day(b)) * 52 + IsoWeekOf(Day(b))
            Month(b) == YearOf(Day(b)) * 12 + MonthOf(Day(b))
            Year(b) == YearOf(Day(b))
            DayDelta(b) == today - Day(b)
            WeekDelta(b) == IsoYearOf(today) * 52 + IsoWeekOf(today) - Week(b)
            MonthDelta(b) == YearOf(today) * 12 + MonthOf(today) - Month(b)
            YearDelta(b) == YearOf(today) - Year(b)
            keep_last == IF eff.keep_last > 0 THEN eff.keep_last ELSE 0
        IN /\ Elems(call.result.keep) =
                  Elems(Take(sorted_reverse(call.backups), keep_last))
                  \cup NewestPerBucket(S, eff.daily, Day, DayDelta)
                  \cup NewestPerBucket(S, eff.weekly, Week, WeekDelta)
                  \cup NewestPerBucket(S, eff.monthly, Month, MonthDelta)
                  \cup NewestPerBucket(S, eff.yearly, Year, YearDelta)
           /\ Elems(call.result.delete) = S \ Elems(call.result.keep)

\* the artifacts of schedule sid in a destination, oldest first
ArtifactsOf(files, sid) ==
    SelectSeq(files, LAMBDA a : a.kind = "sched" /\ a.owner = sid)

\* the Runs of schedule sid
RunsOf(sid) == {i \in DOMAIN runs : runs[i].schedule_id = sid}

\* every Run of schedule sid is a scheduled run that has ended with success
OnlySuccessfulScheduledRuns(sid) ==
    \A i \in RunsOf(sid) :
        runs[i].type = "scheduled" /\ runs[i].ended /\ runs[i].status = "success"

KeepLastOf(sid) ==
    IF schedules[sid].retention.keep_last > 0 THEN schedules[sid].retention.keep_last ELSE 0

Min(a, b) == IF a < b THEN a ELSE b

\* after n successful scheduled runs every destination of the schedule holds
\* min(n, keep_last) of its artifacts
HoldsMinOfRunsAndKeepLast ==
    \A sid \in DOMAIN schedules :
        OnlySuccessfulScheduledRuns(sid) =>
            \A d \in 1..schedules[sid].ndest :
                Len(ArtifactsOf(store[d], sid))
                    = Min(Cardinality(RunsOf(sid)), KeepLastOf(sid))

\* a sweep that succeeds leaves the newest keep_last artifacts of the schedule
SweepLeavesNewest ==
    \A p \in Procs :
        (proc[p].pc = "retention" /\ proc'[p].pc \in {"upload", "finish"}) =>
            LET sid == proc[p].sid
                before == ArtifactsOf(store[proc[p].di], sid)
                n == Len(before)
                k == Min(n, KeepLastOf(sid))
            IN ArtifactsOf(store'[proc[p].di], sid) = SubSeq(before, n - k + 1, n)

RootOf(destination) == resolve(destination.path)

\* the ancestors of a Drive file: its parents, their parents, and so on
RECURSIVE AncestorsFrom(_)
AncestorsFrom(S) ==
    LET more == S \cup UNION {DriveParents[f] : f \in S \cap DOMAIN DriveParents}
    IN IF more = S THEN S ELSE AncestorsFrom(more)

\* the provider's target is inside the destination's root
InsideRoot(destination, target) ==
    IF destination.destination_type = "google_drive"
    THEN target \in DOMAIN DriveParents /\ FOLDER_ID \in AncestorsFrom(DriveParents[target])
    ELSE startswith(target, RootOf(destination))

\* C30: every backup_id accepted by a download or delete request denotes an
\* object inside the destination's root; a request for a path outside the
\* root is rejected before the provider downloads or deletes anything
C30_AcceptedIdInsideRoot ==
    (call.fn \in {"download", "delete"} /\ call.done /\ call.result.accepted) =>
        InsideRoot(call.destination, call.result.target)

\* the operation that created audit event a has ended
OperationEnded(a) ==
    IF audit[a].operation = "delete_backup" /\ audit[a].trigger = "manual"
    THEN call.fn = "delete" /\ call.done
    ELSE audit[a].run \in DOMAIN runs /\ runs[audit[a].run].ended

\* C31: every audit event created in status started has been updated to
\* success or failed when the operation that created it ends; no operation
\* ends leaving its audit event in started
C31_AuditEventLeavesStarted ==
    \A a \in DOMAIN audit :
        OperationEnded(a) => audit[a].status \in {"success", "failed"}

RequestDone == call.fn = "request" /\ call.done

\* the lock record the request met is a restore lock that is not stale
RestoreLockHeld ==
    /\ call.seen.exists
    /\ call.seen.operation = "restore"
    /\ call.at - call.seen.timestamp < LOCK_TIMEOUT

\* the request is a write outside /backup/*, /health and /version
WriteOutsideBackup ==
    /\ call.method \in {"POST", "PUT", "PATCH", "DELETE"}
    /\ call.path[1] # "backup" \/ Len(call.path) = 1
    /\ call.path \notin {<<"health">>, <<"version">>}

BackupNowDone == call.fn = "backup_now" /\ call.done

\* C33: a backup-now request that supplies a non-empty encryption_password and
\* succeeds has uploaded exactly one artifact per destination, every uploaded
\* name ends in .enc, and its Run has status success and details.encrypted
C33_BackupNowEncrypts ==
    (/\ BackupNowDone
     /\ StripPassword(call.payload.encryption_password) # ""
     /\ call.result.status = "success") =>
        /\ Len(call.result.uploads) = UploadCount(call.payload)
        /\ \A i \in DOMAIN call.result.uploads : call.result.uploads[i].enc
        /\ runs[Len(runs)].status = "success"
        /\ call.result.encrypted

\* C34: a manual backup with an empty destination list and
\* use_local_storage = false is rejected with a validation error before any
\* audit event, Run, temporary file or uploaded artifact is created
C34_EmptyDestinationsRejected ==
    (/\ BackupNowDone
     /\ ~call.payload.use_local_storage
     /\ call.payload.ndest = 0) =>
        /\ call.result.status = "rejected"
        /\ runs = <<>>
        /\ audit = <<>>
        /\ tmpdir = {}
        /\ store = [d \in Dests |-> InitialArtifacts]

\* such a request for an existing target has been answered
C34_Witness ==
    /\ BackupNowDone
    /\ ~call.payload.use_local_storage
    /\ call.payload.ndest = 0
    /\ call.payload.target_id \in Targets
    /\ call.result.error = "No destinations provided"

\* request p leaves _release_lock
Releases(p) == proc[p].pc = "release" /\ proc'[p].pc # "release"

\* the lock record of family f was written by request o, which has acquired
\* the lock of that family and has not released it yet
BelongsToRunning(f, o) ==
    /\ lockFile[f].exists
    /\ lockFile[f].owner = o
    /\ proc[o].holds
    /\ FamilyOf(proc[o].tgt) = f

\* C35: releasing the operation lock removes only the releasing operation's
\* own record; a record that belongs to an operation still in progress is
\* never deleted by another operation finishing
C35_ReleaseRemovesOwnRecord ==
    [][\A p \in Procs : \A o \in Procs \ {p} :
          (Releases(p) /\ BelongsToRunning(Fam(p), o)) => lockFile'[Fam(p)].exists]_vars

\* request p is a run-due invocation inside the execution of schedule sid: the
\* Run exists, finished_at and the new next_run_at are not written yet
ExecutesDue(p, sid) ==
    /\ proc[p].op = "run_due"
    /\ proc[p].sid = sid
    /\ proc[p].run # 0
    /\ proc[p].pc \notin {"idle", "respond", "ex_begin"}

\* C36: a due schedule is executed once per due time: two overlapping run-due
\* invocations never both execute the same schedule for the same next_run_at
\* value (which only the end of an execution changes)
C36_OneExecutionPerDueTime ==
    \A p \in Procs : \A q \in Procs \ {p} : \A sid \in DOMAIN schedules :
        ~(ExecutesDue(p, sid) /\ ExecutesDue(q, sid))

\* request p passes lock acquisition in this step (_acquire_lock returns True)
Acquires(p) == ~proc[p].holds /\ proc'[p].holds

\* C37: a backup or restore proceeds past lock acquisition only if the lock
\* record now names that operation; when the record cannot be read, parsed or
\* written the acquisition fails
C37_AcquiredLockNamesOperation ==
    [][\A p \in Procs :
          Acquires(p) =>
              /\ lockFile'[Fam(p)].exists
              /\ lockFile'[Fam(p)].owner = p
              /\ lockFile'[Fam(p)].operation = proc[p].svc]_vars

\* the execution of request p ends as success in this step
EndsAsSuccess(p) ==
    /\ proc[p].pc = "finish"
    /\ proc[p].op # "backup_now"
    /\ runs'[proc[p].run].status = "success"

\* C38: every Run with status success records at least one upload: an
\* execution ends as success only if its artifact was uploaded to at least one
\* destination (di is the destination the loop would turn to next)
C38_SuccessHasUpload ==
    [][\A p \in Procs : EndsAsSuccess(p) => proc[p].di - 1 >= 1]_vars

UploadDone == call.fn = "upload" /\ call.done

\* C39: for every target name the upload path is a relative path made of a
\* non-empty per-target directory and the filename, and the artifact is
\* written inside the destination's base path
C39_UploadPathInsideBase ==
    UploadDone =>
        /\ call.result.subfolder # <<>>
        /\ ~is_absolute(call.result.dest_name)
        /\ InsideRoot(call.destination, call.result.target)

\* a finished call of compute_next_run_at for an anchored interval schedule:
\* an interval of at least an hour that divides the day, with a valid
\* run_at_time of its own
AnchoredCallDone ==
    /\ call.fn = "compute_next_run_at"
    /\ call.done
    /\ call.interval_seconds >= HOUR_SECONDS
    /\ DAY_SECONDS % call.interval_seconds = 0
    /\ call.retention.run_at_time # NoTime
    /\ ParseOk(call.retention.run_at_time)

\* C40: for an anchored interval schedule the next run is the earliest slot
\* of the grid run_at_time + k * interval_seconds strictly after the
\* reference: it is on the grid, later than the reference and at most
\* interval_seconds later
C40_AnchoredNextSlot ==
    AnchoredCallDone =>
        LET t == TimeOfDay(call.retention.run_at_time) IN
        /\ (call.result - t) % call.interval_seconds = 0
        /\ call.result > call.reference
        /\ call.result - call.interval_seconds <= call.reference

====
